---- MODULE Spec2Model ----
(***************************************************************************)
(* Ledger state machine and gossip protocol of the blockchain node        *)
(* (packages transaction, block, chain, mempool, node).                    *)
(*                                                                         *)
(* Conventions of the model                                                *)
(*  - SHA-256 is modelled as an injective function: a digest is the record *)
(*    [digits, pre] of its preimage and of the leading hex digits of the   *)
(*    digest, the latter a fixed mixing function of the preimage, so that   *)
(*    proof-of-work is a real search over the nonce. A digit takes          *)
(*    DigitBase values.                                                     *)
(*  - A byte string that is (or once was) a signature is the record         *)
(*    [len, key, msg]: its length in bytes, the private key that produced   *)
(*    it and the message it signs. ECDSA is modelled as unforgeable: a      *)
(*    64-byte string verifies under public key k iff key = k and msg is     *)
(*    the signed data. Key pairs are numbered; pair k has address           *)
(*    WalletAddress(k).                                                     *)
(*  - Amounts (float64 in the code) are integers counted in units of        *)
(*    10^-7 coin; instants are integer clock ticks.                         *)
(***************************************************************************)
EXTENDS Integers, Sequences, FiniteSets, TLC

(***************************************************************************)
(* Bounds of the model                                                     *)
(***************************************************************************)
\* blocks the nodes of a network mine in one behaviour
MaxClock == 2
\* blocks AddBlock appends to the chain used through its API
MaxLibBlocks == 2
\* values of one digit of a digest (16, a hex digit, in the code)
DigitBase == 4

(***************************************************************************)
(* Program constants                                                       *)
(***************************************************************************)
\* length of a signature: r || s, 32 bytes each
SigLen == 64

Coin == 10 * 1000 * 1000
COINBASE == "COINBASE"

\* the model keeps the two leading digits of a digest (of 64 in the code)
DigestSpace == DigitBase * DigitBase

(***************************************************************************)
(* package transaction                                                     *)
(***************************************************************************)
EmptyBytes == [len |-> 0, key |-> 0, msg |-> <<>>]
EmptyString == <<>>

\* fmt "%f": six decimals, rounded
FormatAmount(a) == (a + 5) \div 10

\* transaction.New: unsigned, no id
NewTransaction(from, to, amount, now) ==
    [from |-> from, to |-> to, amount |-> amount, id |-> EmptyString,
     timestamp |-> now, signature |-> EmptyBytes]

DataToSign(tx) == <<tx.from, tx.to, FormatAmount(tx.amount), tx.timestamp>>

\* Transaction.Hash: sha256 of the same string DataToSign builds
TxHash(tx) == <<tx.from, tx.to, FormatAmount(tx.amount), tx.timestamp>>

Sign(tx, privateKey) ==
    LET signed == [tx EXCEPT !.signature =
                       [len |-> SigLen, key |-> privateKey, msg |-> DataToSign(tx)]]
    IN  [signed EXCEPT !.id = TxHash(signed)]

Verify(tx, publicKey) ==
    IF tx.signature.len # SigLen THEN FALSE
    ELSE tx.signature.key = publicKey /\ tx.signature.msg = DataToSign(tx)

\* Transaction.IsValid: "ok" or the error
TxIsValid(tx) ==
    IF tx.from = "" THEN "from address is required"
    ELSE IF tx.to = "" THEN "to address is required"
    ELSE IF tx.amount <= 0 THEN "amount must be positive"
    ELSE IF tx.signature.len = 0 THEN "transaction must be signed"
    ELSE IF tx.id = EmptyString THEN "transaction must have an ID"
    ELSE "ok"

IsCoinbase(tx) == tx.from = COINBASE

\* A string that encodes a byte string is [chars, pad, bytes]: its length,
\* the number of '=' that end it, and the bytes it was made from.
\* hex.EncodeToString: two characters a byte
HexEncode(bytes) == [chars |-> 2 * bytes.len, pad |-> 0, bytes |-> bytes]

\* Transaction.MarshalJSON: timestamp as RFC3339Nano, signature as hex
TxMarshalJSON(tx) ==
    [id |-> tx.id, from |-> tx.from, to |-> tx.to, amount |-> tx.amount,
     timestamp |-> tx.timestamp, signature |-> HexEncode(tx.signature)]

\* The Signature field is a []byte and Transaction has no UnmarshalJSON:
\* encoding/json reads the string as standard base64, 4 characters to 3
\* bytes less the padding, and fails on a length that is no multiple of 4.
\* Every hex digit is a base64 character.
Base64Decode(str) ==
    IF str.chars % 4 # 0 THEN [ok |-> FALSE, bytes |-> EmptyBytes]
    ELSE [ok |-> TRUE,
          bytes |-> [str.bytes EXCEPT !.len = (3 * str.chars) \div 4 - str.pad]]

\* base64.StdEncoding of a byte string, as a client of the JSON API writes it
Base64Encode(bytes) ==
    [chars |-> 4 * ((bytes.len + 2) \div 3), pad |-> (3 - (bytes.len % 3)) % 3,
     bytes |-> bytes]

\* json.Unmarshal into a Transaction
TxUnmarshalJSON(j) ==
    LET d == Base64Decode(j.signature)
    IN  [ok |-> d.ok,
         tx |-> [id |-> j.id, from |-> j.from, to |-> j.to, amount |-> j.amount,
                 timestamp |-> j.timestamp, signature |-> d.bytes]]

\* a signature of 64 bytes that no key of the model produced
ForeignSignature(tx) == [len |-> SigLen, key |-> 0, msg |-> DataToSign(tx)]

(***************************************************************************)
(* package block                                                           *)
(***************************************************************************)
\* the string "0", previous hash of a genesis block
ZeroHash == [digits |-> <<0>>, pre |-> <<>>]

NewBlock(index, transactions, previousHash, now) ==
    [index |-> index, timestamp |-> now, transactions |-> transactions,
     previous_hash |-> previousHash, hash |-> [digits |-> <<>>, pre |-> <<>>],
     nonce |-> 0]

\* the transactions as the hashed record holds them: their JSON
BlockData(b) == [i \in 1..Len(b.transactions) |-> TxMarshalJSON(b.transactions[i])]

\* the leading digits of sha256(record): a mixing function of the record,
\* Salt of everything but the nonce
Salt(b) ==
    b.index * 37 + b.timestamp * 101 + Len(b.transactions) * 53
       + Len(b.previous_hash.digits) * 29 + 11

DigestDigits(salt, nonce) ==
    LET v == (salt + nonce * 7) % DigestSpace
    IN  <<v \div DigitBase, v % DigitBase>>

CalculateHash(b) ==
    [digits |-> DigestDigits(Salt(b), b.nonce),
     pre |-> <<b.index, b.timestamp, BlockData(b), b.previous_hash, b.nonce>>]

\* b.Hash[:difficulty] == targetStr
MeetsTarget(hash, difficulty) ==
    /\ difficulty <= Len(hash.digits)
    /\ \A i \in 1..difficulty : hash.digits[i] = 0

\* Block.Mine: the loop leaves the first nonce, from b.nonce on, whose hash
\* meets the target; the digits of the digest return after DigestSpace
\* nonces, so the search is over that many
Mine(b, difficulty) ==
    LET salt == Salt(b)
        hits == {n \in b.nonce..(b.nonce + DigestSpace - 1) :
                    MeetsTarget([digits |-> DigestDigits(salt, n), pre |-> <<>>],
                                difficulty)}
        first == CHOOSE n \in hits : \A m \in hits : n <= m
        mined == [b EXCEPT !.nonce = first]
    IN  [mined EXCEPT !.hash = CalculateHash(mined)]

BlockIsValid(b) == b.hash = CalculateHash(b)

\* Block.MarshalJSON, and json.Unmarshal into a Block
BlockMarshalJSON(b) ==
    [index |-> b.index, timestamp |-> b.timestamp,
     transactions |-> [i \in 1..Len(b.transactions) |->
                          TxMarshalJSON(b.transactions[i])],
     previous_hash |-> b.previous_hash, hash |-> b.hash, nonce |-> b.nonce]

BlockUnmarshalJSON(j) ==
    [ok |-> \A i \in 1..Len(j.transactions) : TxUnmarshalJSON(j.transactions[i]).ok,
     block |-> [index |-> j.index, timestamp |-> j.timestamp,
                transactions |-> [i \in 1..Len(j.transactions) |->
                                     TxUnmarshalJSON(j.transactions[i]).tx],
                previous_hash |-> j.previous_hash, hash |-> j.hash,
                nonce |-> j.nonce]]

(***************************************************************************)
(* package wallet                                                          *)
(***************************************************************************)
\* key pairs; pair k is the wallet of node k
Keys == {1, 2, 3}

\* Wallet.Address: hex sha256 of the public key
WalletAddress(k) == CASE k = 1 -> "w1" [] k = 2 -> "w2" [] OTHER -> "w3"

Addresses == {WalletAddress(k) : k \in Keys}

(***************************************************************************)
(* package chain                                                           *)
(***************************************************************************)
\* a Go map read with a missing key gives the zero value: balances are
\* total, 0 where the map has no entry; publicKeys holds 0 (no key) likewise
NoBalances == [a \in Addresses |-> 0]
NoKeys == [a \in Addresses |-> 0]

NewChain(difficulty, miningReward, now) ==
    [blocks |-> <<Mine(NewBlock(0, <<>>, ZeroHash, now), difficulty)>>,
     difficulty |-> difficulty, mining_reward |-> miningReward,
     balances |-> NoBalances, publicKeys |-> NoKeys]

RegisterPublicKey(c, address, publicKey) ==
    [c EXCEPT !.publicKeys[address] = publicKey]

GetBalance(c, address) == c.balances[address]

Length(c) == Len(c.blocks)

GetLatestBlock(c) == c.blocks[Len(c.blocks)]

\* one step of the balance update shared by the simulation and the ledger
Debit(bal, tx) == [bal EXCEPT ![tx.from] = @ - tx.amount]
Credit(bal, tx) == [bal EXCEPT ![tx.to] = @ + tx.amount]

\* validateTransactions, from transaction i on, tempBalances being the
\* simulated copy. Gives the error and the chain as the call leaves it.
RECURSIVE ValidateFrom(_, _, _, _)
ValidateFrom(c, tempBalances, transactions, i) ==
    IF i > Len(transactions) THEN [err |-> "ok", chain |-> c]
    ELSE LET tx == transactions[i] IN
         IF TxIsValid(tx) # "ok" THEN [err |-> TxIsValid(tx), chain |-> c]
         ELSE IF IsCoinbase(tx) THEN ValidateFrom(c, tempBalances, transactions, i + 1)
         ELSE IF c.publicKeys[tx.from] = 0
              THEN [err |-> "public key not registered", chain |-> c]
         ELSE IF ~Verify(tx, c.publicKeys[tx.from])
              THEN [err |-> "invalid signature", chain |-> c]
         ELSE IF tempBalances[tx.from] < tx.amount
              THEN [err |-> "insufficient balance", chain |-> c]
         ELSE ValidateFrom(c, Credit(Debit(tempBalances, tx), tx), transactions, i + 1)

\* validateTransactions without the balance check
RECURSIVE ValidateNoBalanceFrom(_, _, _)
ValidateNoBalanceFrom(c, transactions, i) ==
    IF i > Len(transactions) THEN [err |-> "ok", chain |-> c]
    ELSE LET tx == transactions[i] IN
         IF TxIsValid(tx) # "ok" THEN [err |-> TxIsValid(tx), chain |-> c]
         ELSE IF IsCoinbase(tx) THEN ValidateNoBalanceFrom(c, transactions, i + 1)
         ELSE IF c.publicKeys[tx.from] = 0
              THEN [err |-> "public key not registered", chain |-> c]
         ELSE IF ~Verify(tx, c.publicKeys[tx.from])
              THEN [err |-> "invalid signature", chain |-> c]
         ELSE ValidateNoBalanceFrom(c, transactions, i + 1)

validateTransactionsNoBalance(c, transactions) ==
    ValidateNoBalanceFrom(c, transactions, 1)

\* validateTransactions checking every transaction against the ledger's
\* balances, the simulated copy never updated
RECURSIVE ValidateStaleFrom(_, _, _)
ValidateStaleFrom(c, transactions, i) ==
    IF i > Len(transactions) THEN [err |-> "ok", chain |-> c]
    ELSE LET tx == transactions[i] IN
         IF TxIsValid(tx) # "ok" THEN [err |-> TxIsValid(tx), chain |-> c]
         ELSE IF IsCoinbase(tx) THEN ValidateStaleFrom(c, transactions, i + 1)
         ELSE IF c.publicKeys[tx.from] = 0
              THEN [err |-> "public key not registered", chain |-> c]
         ELSE IF ~Verify(tx, c.publicKeys[tx.from])
              THEN [err |-> "invalid signature", chain |-> c]
         ELSE IF c.balances[tx.from] < tx.amount
              THEN [err |-> "insufficient balance", chain |-> c]
         ELSE ValidateStaleFrom(c, transactions, i + 1)

validateTransactionsStale(c, transactions) ==
    ValidateStaleFrom(c, transactions, 1)

\* validateTransactions simulating on the ledger's own map, not on a copy
RECURSIVE ValidateInPlaceFrom(_, _, _)
ValidateInPlaceFrom(c, transactions, i) ==
    IF i > Len(transactions) THEN [err |-> "ok", chain |-> c]
    ELSE LET tx == transactions[i] IN
         IF TxIsValid(tx) # "ok" THEN [err |-> TxIsValid(tx), chain |-> c]
         ELSE IF IsCoinbase(tx) THEN ValidateInPlaceFrom(c, transactions, i + 1)
         ELSE IF c.publicKeys[tx.from] = 0
              THEN [err |-> "public key not registered", chain |-> c]
         ELSE IF ~Verify(tx, c.publicKeys[tx.from])
              THEN [err |-> "invalid signature", chain |-> c]
         ELSE IF c.balances[tx.from] < tx.amount
              THEN [err |-> "insufficient balance", chain |-> c]
         ELSE ValidateInPlaceFrom(
                  [c EXCEPT !.balances = Credit(Debit(c.balances, tx), tx)],
                  transactions, i + 1)

validateTransactionsInPlace(c, transactions) ==
    ValidateInPlaceFrom(c, transactions, 1)

validateTransactions(c, transactions) ==
    ValidateFrom(c, c.balances, transactions, 1)

\* applyTransactions: the balances after transactions i.. of the list
RECURSIVE ApplyFrom(_, _, _)
ApplyFrom(bal, transactions, i) ==
    IF i > Len(transactions) THEN bal
    ELSE LET tx == transactions[i]
             debited == IF ~IsCoinbase(tx) THEN Debit(bal, tx) ELSE bal
         IN  ApplyFrom(Credit(debited, tx), transactions, i + 1)

\* applyTransactions crediting the recipient and never debiting the sender
RECURSIVE CreditFrom(_, _, _)
CreditFrom(bal, transactions, i) ==
    IF i > Len(transactions) THEN bal
    ELSE CreditFrom(Credit(bal, transactions[i]), transactions, i + 1)

applyTransactionsCreditOnly(c, transactions) ==
    [c EXCEPT !.balances = CreditFrom(c.balances, transactions, 1)]

applyTransactions(c, transactions) ==
    [c EXCEPT !.balances = ApplyFrom(c.balances, transactions, 1)]

\* validateNewBlock without the check of the proof of work
validateNewBlockNoWork(c, newBlock, prevBlock) ==
    IF newBlock.index # prevBlock.index + 1 THEN "invalid index"
    ELSE IF newBlock.previous_hash # prevBlock.hash THEN "invalid previous hash"
    ELSE IF ~BlockIsValid(newBlock) THEN "invalid hash"
    ELSE "ok"

validateNewBlock(c, newBlock, prevBlock) ==
    IF newBlock.index # prevBlock.index + 1 THEN "invalid index"
    ELSE IF newBlock.previous_hash # prevBlock.hash THEN "invalid previous hash"
    ELSE IF ~BlockIsValid(newBlock) THEN "invalid hash"
    ELSE IF ~MeetsTarget(newBlock.hash, c.difficulty) THEN "insufficient proof-of-work"
    ELSE "ok"

\* the coinbase AddBlock builds: unsigned, its id set to its hash
NewCoinbase(minerAddress, reward, now) ==
    LET cb == NewTransaction(COINBASE, minerAddress, reward, now)
    IN  [cb EXCEPT !.id = TxHash(cb)]

\* AddBlock going on after validateTransactions returned an error
AddBlockUnchecked(c, transactions, minerAddress, now) ==
    LET coinbase == NewCoinbase(minerAddress, c.mining_reward, now)
        allTransactions == <<coinbase>> \o transactions
        prevBlock == c.blocks[Len(c.blocks)]
        newBlock == Mine(NewBlock(prevBlock.index + 1, allTransactions,
                                  prevBlock.hash, now), c.difficulty)
        b == validateNewBlock(c, newBlock, prevBlock)
    IN  IF b # "ok" THEN [err |-> b, chain |-> c]
        ELSE [err |-> "ok",
              chain |-> applyTransactions(
                            [c EXCEPT !.blocks = Append(@, newBlock)],
                            allTransactions)]

\* Chain.AddBlock at instant now: the error ("ok" on success) and the chain
\* as the call leaves it
AddBlock(c, transactions, minerAddress, now) ==
    LET v == validateTransactions(c, transactions)
        coinbase == NewCoinbase(minerAddress, c.mining_reward, now)
        allTransactions == <<coinbase>> \o transactions
        prevBlock == v.chain.blocks[Len(v.chain.blocks)]
        newBlock == Mine(NewBlock(prevBlock.index + 1, allTransactions,
                                  prevBlock.hash, now), v.chain.difficulty)
        b == validateNewBlock(v.chain, newBlock, prevBlock)
    IN  IF v.err # "ok" THEN [err |-> v.err, chain |-> v.chain]
        ELSE IF b # "ok" THEN [err |-> b, chain |-> v.chain]
        ELSE [err |-> "ok",
              chain |-> applyTransactions(
                            [v.chain EXCEPT !.blocks = Append(@, newBlock)],
                            allTransactions)]

\* Chain.IsValid: the loop over blocks i (0-based in the code) from block i
\* on, tempBalances rebuilt from scratch; the inner loop over a block's
\* transactions is ReplayFrom
RECURSIVE ReplayFrom(_, _, _)
ReplayFrom(tempBalances, transactions, j) ==
    IF j > Len(transactions) THEN [ok |-> TRUE, bal |-> tempBalances]
    ELSE LET tx == transactions[j] IN
         IF ~IsCoinbase(tx) /\ tempBalances[tx.from] < tx.amount
         THEN [ok |-> FALSE, bal |-> tempBalances]
         ELSE LET debited == IF ~IsCoinbase(tx) THEN Debit(tempBalances, tx)
                             ELSE tempBalances
              IN  ReplayFrom(Credit(debited, tx), transactions, j + 1)

RECURSIVE IsValidFrom(_, _, _)
IsValidFrom(c, tempBalances, i) ==
    IF i > Len(c.blocks) THEN TRUE
    ELSE IF validateNewBlock(c, c.blocks[i], c.blocks[i - 1]) # "ok" THEN FALSE
    ELSE LET r == ReplayFrom(tempBalances, c.blocks[i].transactions, 1)
         IN  r.ok /\ IsValidFrom(c, r.bal, i + 1)

IsValid(c) == IsValidFrom(c, NoBalances, 2)

\* json.Marshal of a Chain: the exported fields
ChainMarshalJSON(c) ==
    [blocks |-> [i \in 1..Len(c.blocks) |-> BlockMarshalJSON(c.blocks[i])],
     difficulty |-> c.difficulty, mining_reward |-> c.mining_reward]

\* json.Unmarshal into a Chain: balances and publicKeys are left nil
ChainUnmarshalJSON(j) ==
    [ok |-> \A i \in 1..Len(j.blocks) : BlockUnmarshalJSON(j.blocks[i]).ok,
     chain |-> [blocks |-> [i \in 1..Len(j.blocks) |->
                               BlockUnmarshalJSON(j.blocks[i]).block],
                difficulty |-> j.difficulty, mining_reward |-> j.mining_reward,
                balances |-> NoBalances, publicKeys |-> NoKeys]]

\* the balances after every transaction of blocks i.. is applied in order
RECURSIVE ReplayBlocks(_, _, _)
ReplayBlocks(bal, blocks, i) ==
    IF i > Len(blocks) THEN bal
    ELSE ReplayBlocks(ApplyFrom(bal, blocks[i].transactions, 1), blocks, i + 1)

\* Chain.RebuildState: fresh maps, balances replayed from the blocks, no
\* public key
RebuildState(c) ==
    [c EXCEPT !.balances = ReplayBlocks(NoBalances, c.blocks, 1),
              !.publicKeys = NoKeys]

\* Chain.SaveToFile: the document json.MarshalIndent writes
SaveToFile(c) == ChainMarshalJSON(c)

\* LoadFromFile: decode, then fresh maps and the balances rebuilt from the
\* blocks; no public key is restored
LoadFromFile(data) ==
    LET d == ChainUnmarshalJSON(data)
    IN  [ok |-> d.ok,
         chain |-> [d.chain EXCEPT
                       !.balances = ReplayBlocks(NoBalances, d.chain.blocks, 1),
                       !.publicKeys = NoKeys]]

(***************************************************************************)
(* package mempool: the map id -> transaction is the set of its values     *)
(***************************************************************************)
MempoolNew == {}

\* Add replacing the entry of an id already present
MempoolAddOverwrite(m, tx) ==
    IF TxIsValid(tx) # "ok" THEN [err |-> "invalid transaction", pool |-> m]
    ELSE [err |-> "ok", pool |-> {t \in m : t.id # tx.id} \cup {tx}]

\* Add without the call of tx.IsValid
MempoolAddUnvalidated(m, tx) ==
    IF \E t \in m : t.id = tx.id
         THEN [err |-> "already in mempool", pool |-> m]
    ELSE [err |-> "ok", pool |-> m \cup {tx}]

MempoolAdd(m, tx) ==
    IF TxIsValid(tx) # "ok" THEN [err |-> "invalid transaction", pool |-> m]
    ELSE IF \E t \in m : t.id = tx.id
         THEN [err |-> "already in mempool", pool |-> m]
    ELSE [err |-> "ok", pool |-> m \cup {tx}]

\* Mempool.GetAll: the values in the order the map iteration gives, which
\* is any order
GetAll(m) ==
    {order \in [1..Cardinality(m) -> m] :
        \A i \in 1..Cardinality(m), j \in 1..Cardinality(m) :
            i # j => order[i] # order[j]}

\* Mempool.Remove: delete(m.transactions, txID)
MempoolRemove(m, txID) == {t \in m : t.id # txID}

\* Mempool.Get: the entry filed under txID, if it exists
MempoolGet(m, txID) == {t \in m : t.id = txID}

\* Mempool.GetN: up to n values, in the order the map iteration gives
GetN(m, n) ==
    LET k == IF n < Cardinality(m) THEN n ELSE Cardinality(m)
    IN  {order \in [1..k -> m] :
            \A i \in 1..k, j \in 1..k : i # j => order[i] # order[j]}

\* Mempool.Size
Size(m) == Cardinality(m)

\* Mempool.Clear: a fresh map
MempoolClear(m) == {}

\* RemoveTransactions deleting the first transaction of the list only
RemoveTransactionsFirst(m, txs) ==
    {t \in m : Len(txs) = 0 \/ txs[1].id # t.id}

\* RemoveTransactions deleting nothing
RemoveTransactionsKeep(m, txs) == m

\* RemoveTransactions leaving a fresh map, as Clear does
RemoveTransactionsAll(m, txs) == {}

RemoveTransactions(m, txs) ==
    {t \in m : \A i \in 1..Len(txs) : txs[i].id # t.id}

(***************************************************************************)
(* package node                                                            *)
(***************************************************************************)
\* node n listens on address n and holds key pair n
Nodes == {1, 2, 3}

\* the flags -difficulty and -reward node n is started with
NodeDifficulty(n) == IF n = 2 THEN 2 ELSE 1
NodeReward(n) == Coin

\* the instant node n is constructed at: the timestamp of its genesis block
StartTime(n) == n

\* node.New: the chain, with the node's own public key registered
NewNodeChain(n) ==
    RegisterPublicKey(NewChain(NodeDifficulty(n), NodeReward(n), StartTime(n)),
                      WalletAddress(n), n)

\* Node.AddPeer on the peer list
AddPeer(n, list, peerAddress) ==
    IF peerAddress = n THEN list
    ELSE IF \E i \in 1..Len(list) : list[i] = peerAddress THEN list
    ELSE Append(list, peerAddress)

(***************************************************************************)
(* State                                                                   *)
(***************************************************************************)
VARIABLES
    now,        \* the clock: the next value time.Now() gives
    lib,        \* a Chain used through its own API (chain.New, AddBlock, ...)
    libCall,    \* the last call on lib and the error it returned
    libApplied, \* TRUE while every non-coinbase transaction applyTransactions
                \* has applied to lib found balance >= amount at its turn
    file,       \* the file SaveToFile writes and LoadFromFile reads
    pool,       \* a Mempool used through its own API
    gor,        \* gor[g]: the call goroutine g makes on pool, or made last
    added,      \* added[id]: the Adds of id that returned nil since id was
                \* last removed
    txn,        \* a Transaction in the hands of the code that made it
    txCall,     \* the last call on txn and what it returned
    chain,      \* chain[n]: Node.Chain of node n
    mempool,    \* mempool[n]: Node.Mempool
    peers,      \* peers[n]: Node.Peers
    isMining,   \* isMining[n]: Node.isMining
    call,       \* call[n][t]: invocation t of Node.Mine on node n
    sync,       \* sync[n]: the invocation of Node.SyncWithPeers on node n
    msgs,       \* POST requests sent and not yet handled
    reader      \* the last GET a node answered, and its answer

poolVars == <<pool, gor, added>>
txVars == <<txn, txCall>>
libVars == <<lib, libCall, libApplied, file, pool, gor, added, txn, txCall>>
netVars == <<chain, mempool, peers, isMining, call, sync, msgs, reader>>
vars == <<now, lib, libCall, libApplied, file, pool, gor, added, txn, txCall,
          chain, mempool, peers, isMining, call, sync, msgs, reader>>

\* concurrent invocations of Mine on one node
MaxCalls == 2
Calls == 1..MaxCalls

IdleCall == [pc |-> "idle", txs |-> <<>>, err |-> "none"]

NoChain ==
    [blocks |-> <<>>, difficulty |-> 0, mining_reward |-> 0,
     balances |-> NoBalances, publicKeys |-> NoKeys]

\* SyncWithPeers not running. The fields peers, i, maxLength, longestChain
\* are its locals; before, seen, reached and quiet record, for the claims,
\* the node's chain length when it began, the greatest length of a chain
\* that was valid at the peer that served it, the peers that answered,
\* whether no node's chain has changed since it began, and the turns of the
\* loop that ended in a continue or met an invalid chain.
IdleSync ==
    [pc |-> "idle", up |-> TRUE, peers |-> <<>>, i |-> 1, maxLength |-> 0,
     longestChain |-> NoChain, before |-> 0, seen |-> 0, reached |-> {},
     quiet |-> TRUE, failed |-> {}]

\* main before its first statement; up is FALSE until main reaches
\* StartServer, after the sync on startup
NotStarted == [IdleSync EXCEPT !.pc = "boot", !.up = FALSE]

\* no GET answered yet
NoRead ==
    [n |-> 0, address |-> "", op |-> "none", balance |-> 0,
     body |-> [difficulty |-> 0, blocks |-> <<>>, mining_reward |-> 0]]

\* first tick of the clock after every node's construction
FirstTick == Cardinality(Nodes) + 1

\* the network before any node runs
NetInit ==
    /\ chain = [n \in Nodes |-> NewNodeChain(n)]
    /\ mempool = [n \in Nodes |-> MempoolNew]
    /\ peers = [n \in Nodes |-> <<>>]
    /\ isMining = [n \in Nodes |-> FALSE]
    /\ call = [n \in Nodes |-> [t \in Calls |-> IdleCall]]
    /\ sync = [n \in Nodes |-> NotStarted]
    /\ msgs = {}
    /\ reader = NoRead

\* no file has been written
NoFile == [blocks |-> <<>>, difficulty |-> 0, mining_reward |-> 0]

\* goroutines that call the mempool concurrently
MaxGoroutines == 2
Goroutines == 1..MaxGoroutines

\* the transactions handed to the mempool: two signed ones, a third that
\* has the id of the first and another signature, one never signed, and
\* one that has the id of the second and no signature
PoolTxs ==
    LET t1 == NewTransaction("w1", "w2", Coin, 0)
        t2 == NewTransaction("w2", "w3", Coin, 0)
    IN  {Sign(t1, 1), Sign(t1, 2), Sign(t2, 2), t1,
         [Sign(t2, 2) EXCEPT !.signature = EmptyBytes]}

\* the ids handed to Remove and Get: those of the transactions and one more
NoSuchId == <<"nonexistent">>
PoolIds == {tx.id : tx \in PoolTxs} \cup {NoSuchId}

\* what a call returned: an error, a count, a list
NoReturn == [err |-> "none", list |-> <<>>, size |-> 0]

\* a goroutine: where it is, the call it makes and its arguments, what it
\* has read so far, the map as it was when it took the read lock, and what
\* its last call returned
IdleGoroutine ==
    [id |-> EmptyString, tx |-> NewTransaction("", "", 0, 0), n |-> 0,
     txs |-> <<>>, list |-> <<>>, pc |-> "idle", op |-> "none", snap |-> {},
     ret |-> NoReturn]

\* sync.RWMutex: the goroutines that hold the read lock. The write lock is
\* never held between two steps
Unlocked == [readers |-> {}]

\* mu.Lock returns once no goroutine holds the read lock
CanLockAlways(mu) == TRUE

CanLock(mu) == mu.readers = {}

RLock(mu, g) == [mu EXCEPT !.readers = @ \cup {g}]

RUnlock(mu, g) == [mu EXCEPT !.readers = @ \ {g}]

\* no call on the transaction yet; signer is the key of the last Sign and
\* field the field written to since, if any
NoTxCall == [op |-> "none", ret |-> "none", key |-> 0, signer |-> 0,
             field |-> "none"]

TxIdle ==
    /\ txn = NewTransaction("", "", 0, 0)
    /\ txCall = NoTxCall

PoolIdle ==
    /\ pool = [transactions |-> MempoolNew, mu |-> Unlocked]
    /\ gor = [g \in Goroutines |-> IdleGoroutine]
    /\ added = [id \in PoolIds |-> 0]

LibIdle ==
    /\ lib = NewChain(1, Coin, 0)
    /\ libCall = [op |-> "none", err |-> "ok"]
    /\ libApplied = TRUE
    /\ file = NoFile
    /\ PoolIdle
    /\ TxIdle

(***************************************************************************)
(* The chain through its API: RegisterPublicKey and AddBlock with          *)
(* arbitrary transaction lists                                             *)
(***************************************************************************)
Difficulties == {1, 2}
Rewards == {Coin, 2 * Coin}

\* the transactions callers hand to AddBlock
LibTxPool ==
    LET t1 == NewTransaction("w1", "w2", Coin, 0)
        t2 == NewTransaction("w1", "w2", 2 * Coin, 0)
        t3 == NewTransaction("w2", "w1", Coin, 0)
        t4 == NewTransaction("w1", "w1", Coin, 0)
        t5 == NewTransaction(COINBASE, "w2", Coin, 0)
        t6 == NewTransaction("w1", "w2", 0, 0)
    IN  { Sign(t1, 1), Sign(t2, 1), Sign(t3, 2), Sign(t4, 1),
          \* a caller's transaction that names COINBASE as its sender
          [Sign(t5, 2) EXCEPT !.signature = ForeignSignature(t5)],
          \* no amount
          Sign(t6, 1),
          \* signed with a key that is not the sender's
          Sign(t1, 2),
          \* never signed
          [t1 EXCEPT !.id = TxHash(t1)] }

MaxListLen == 2
LibTxLists == UNION { [1..k -> LibTxPool] : k \in 0..MaxListLen }

\* TRUE iff applying the list in order to bal never debits more than the
\* sender holds at that point
RECURSIVE CoveredFrom(_, _, _)
CoveredFrom(bal, transactions, i) ==
    IF i > Len(transactions) THEN TRUE
    ELSE LET tx == transactions[i]
             debited == IF ~IsCoinbase(tx) THEN Debit(bal, tx) ELSE bal
         IN  /\ IsCoinbase(tx) \/ bal[tx.from] >= tx.amount
             /\ CoveredFrom(Credit(debited, tx), transactions, i + 1)

NoCall == [op |-> "none", err |-> "ok"]

LibInit ==
    /\ now = 1
    /\ \E d \in Difficulties, r \in Rewards : lib = NewChain(d, r, 0)
    /\ libCall = NoCall
    /\ libApplied = TRUE
    /\ file = NoFile
    /\ PoolIdle
    /\ TxIdle
    /\ NetInit

LibRegisterPublicKey(address, publicKey) ==
    /\ lib' = RegisterPublicKey(lib, address, publicKey)
    /\ libCall' = [op |-> "RegisterPublicKey", err |-> "ok"]
    /\ UNCHANGED <<now, libApplied, file, poolVars, txVars, netVars>>

LibAddBlock(transactions, minerAddress) ==
    /\ Length(lib) <= MaxLibBlocks
    /\ now <= MaxLibBlocks
    /\ LET r == AddBlock(lib, transactions, minerAddress, now)
       IN  /\ lib' = r.chain
           /\ libCall' = [op |-> "AddBlock", err |-> r.err]
           /\ libApplied' =
                 IF Len(r.chain.blocks) > Len(lib.blocks)
                 THEN libApplied /\ CoveredFrom(lib.balances,
                                     GetLatestBlock(r.chain).transactions, 1)
                 ELSE libApplied
           /\ now' = IF r.err = "ok" THEN now + 1 ELSE now
    /\ UNCHANGED <<file, poolVars, txVars, netVars>>

LibNext ==
    \/ \E a \in {"w1", "w2"}, k \in {1, 2} : LibRegisterPublicKey(a, k)
    \/ \E txs \in LibTxLists, m \in {"w1", "w2"} : LibAddBlock(txs, m)

ChainSpec == LibInit /\ [][LibNext]_vars

(***************************************************************************)
(* AddBlock, and IsValid of the chain with the same block appended, as a   *)
(* peer serves it                                                          *)
(***************************************************************************)
\* AddBlock(transactions, minerAddress) on the chain; replayed is what
\* IsValid returns for the chain with the block of that list (coinbase
\* first, mined to the difficulty) appended to the same blocks
LibAdmit(transactions, minerAddress) ==
    /\ Length(lib) <= MaxLibBlocks
    /\ now <= MaxLibBlocks
    /\ LET r == AddBlock(lib, transactions, minerAddress, now)
           served == AddBlockUnchecked(lib, transactions, minerAddress, now).chain
       IN  /\ lib' = r.chain
           /\ libCall' = [op |-> "AddBlock", err |-> r.err,
                          transactions |-> transactions,
                          minerAddress |-> minerAddress,
                          replayed |-> IsValid(RebuildState(served))]
           /\ libApplied' =
                 IF Len(r.chain.blocks) > Len(lib.blocks)
                 THEN libApplied /\ CoveredFrom(lib.balances,
                                     GetLatestBlock(r.chain).transactions, 1)
                 ELSE libApplied
           /\ now' = IF r.err = "ok" THEN now + 1 ELSE now
    /\ UNCHANGED <<file, poolVars, txVars, netVars>>

\* the lists of transactions that are well formed and signed: whether
\* AddBlock takes one depends on the keys registered and on the balances
AgreeTxLists ==
    { txs \in LibTxLists :
        \A i \in 1..Len(txs) :
            /\ TxIsValid(txs[i]) = "ok"
            /\ IsCoinbase(txs[i]) \/ \E k \in {1, 2} : Verify(txs[i], k) }

AgreeNext ==
    \/ \E a \in {"w1", "w2"}, k \in {1, 2} : LibRegisterPublicKey(a, k)
    \/ \E txs \in AgreeTxLists, m \in {"w1", "w2"} : LibAdmit(txs, m)

\* a new chain of difficulty 1 whose reward is one coin
AgreeInit == LibInit /\ lib = NewChain(1, Coin, 0)

AgreeSpec == AgreeInit /\ [][AgreeNext]_vars

(***************************************************************************)
(* The chain through its API, saved to a file and loaded from it           *)
(***************************************************************************)
LibSaveToFile ==
    /\ file' = SaveToFile(lib)
    /\ libCall' = [op |-> "SaveToFile", err |-> "ok"]
    /\ UNCHANGED <<now, lib, libApplied, poolVars, txVars, netVars>>

\* the caller goes on with the chain LoadFromFile returns
LibLoadFromFile ==
    /\ file # NoFile
    /\ LET r == LoadFromFile(file)
       IN  /\ lib' = IF r.ok THEN r.chain ELSE lib
           /\ libCall' = [op |-> "LoadFromFile",
                          err |-> IF r.ok THEN "ok" ELSE "decode"]
    /\ UNCHANGED <<now, libApplied, file, poolVars, txVars, netVars>>

\* the transfers handed to AddBlock on a chain that is saved and loaded:
\* wallet 1 pays wallet 2, wallet 2 pays it back, wallet 1 pays itself
StoreTxPool ==
    { Sign(NewTransaction("w1", "w2", Coin, 0), 1),
      Sign(NewTransaction("w2", "w1", Coin, 0), 2),
      Sign(NewTransaction("w1", "w1", Coin, 0), 1) }

StoreTxLists == UNION { [1..k -> StoreTxPool] : k \in 0..1 }

StoreNext ==
    \/ \E k \in {1, 2} : LibRegisterPublicKey(WalletAddress(k), k)
    \/ \E txs \in StoreTxLists : LibAddBlock(txs, "w1")
    \/ LibSaveToFile
    \/ LibLoadFromFile

StoreSpec == LibInit /\ [][StoreNext]_vars

(***************************************************************************)
(* The chain through its API, then one write to a field of one of its      *)
(* blocks by code that holds the chain (Blocks is an exported slice of      *)
(* pointers), with or without a call of CalculateHash to refresh the hash  *)
(***************************************************************************)
HashedFields == {"index", "timestamp", "transactions", "previous_hash", "nonce"}

\* a transaction that pays a reward to an address of the writer's choice
Forged == NewCoinbase("w3", Coin, 0)

\* block b with another value in field f
Mutated(b, f) ==
    CASE f = "index" -> [b EXCEPT !.index = @ + 1]
      [] f = "timestamp" -> [b EXCEPT !.timestamp = @ + 1]
      [] f = "transactions" ->
            IF Len(b.transactions) = 0
                 THEN [b EXCEPT !.transactions = <<Forged>>]
            ELSE [b EXCEPT !.transactions[Len(b.transactions)].amount = @ + Coin]
      [] f = "previous_hash" -> [b EXCEPT !.previous_hash = b.hash]
      [] f = "nonce" -> [b EXCEPT !.nonce = @ + 1]
      [] f = "hash" -> [b EXCEPT !.hash = CalculateHash([b EXCEPT !.nonce = @ + 1])]

\* c.Blocks[i].f = ..., then c.Blocks[i].Hash = c.Blocks[i].CalculateHash()
\* if rehash
Tamper(i, f, rehash) ==
    /\ i \in 1..Length(lib)
    /\ LET b == Mutated(lib.blocks[i], f)
       IN  lib' = [lib EXCEPT !.blocks[i] =
                      IF rehash THEN [b EXCEPT !.hash = CalculateHash(b)] ELSE b]
    /\ libCall' = [op |-> "Tamper", err |-> "ok", index |-> i - 1, field |-> f,
                   rehash |-> rehash]
    /\ UNCHANGED <<now, libApplied, file, poolVars, txVars, netVars>>

\* the chain is built, written to once and left alone
TamperNext ==
    /\ libCall.op # "Tamper"
    /\ \/ \E k \in {1, 2} : LibRegisterPublicKey(WalletAddress(k), k)
       \/ \E txs \in StoreTxLists : LibAddBlock(txs, "w1")
       \/ \E i \in 1..(MaxLibBlocks + 1), f \in HashedFields \cup {"hash"} :
              Tamper(i, f, FALSE)
       \/ \E i \in 1..(MaxLibBlocks + 1), f \in HashedFields :
              Tamper(i, f, TRUE)

TamperSpec == LibInit /\ [][TamperNext]_vars

(***************************************************************************)
(* validateNewBlock called with the latest block of a chain and a block    *)
(* of the caller's making                                                  *)
(***************************************************************************)
\* the difficulties a caller mines a block to
WorkDone == 0..2

\* the blocks a caller makes for prevBlock at time t: with the index after
\* it or another, with its hash or another as previous hash, mined to some
\* difficulty, and then left alone or written to
NewBlocks(prevBlock, t) ==
    LET made == {Mine(NewBlock(index, transactions, previousHash, t), d) :
                    index \in {prevBlock.index, prevBlock.index + 1,
                               prevBlock.index + 5},
                    transactions \in {<<>>, <<NewCoinbase("w1", Coin, t)>>},
                    previousHash \in {prevBlock.hash, ZeroHash},
                    d \in WorkDone}
    IN  made \cup {Mutated(b, f) : b \in made, f \in {"hash", "nonce"}}

LibValidateNewBlock(newBlock) ==
    /\ libCall' = [op |-> "validateNewBlock",
                   err |-> validateNewBlock(lib, newBlock, GetLatestBlock(lib)),
                   newBlock |-> newBlock, prevBlock |-> GetLatestBlock(lib)]
    /\ UNCHANGED <<now, lib, libApplied, file, poolVars, txVars, netVars>>

ValidateNext ==
    \/ LibAddBlock(<<>>, "w1")
    \/ \E b \in NewBlocks(GetLatestBlock(lib), now) : LibValidateNewBlock(b)

ValidateSpec == LibInit /\ [][ValidateNext]_vars

(***************************************************************************)
(* A transaction through its API: New or the coinbase AddBlock builds,     *)
(* Sign, one write to an exported field, IsValid and Verify                *)
(***************************************************************************)
\* the arguments of transaction.New
NewTxs ==
    {NewTransaction(from, to, amount, FirstTick) :
        from \in {"", "w1", COINBASE}, to \in {"", "w2"},
        amount \in {0 - Coin, 0, Coin}}
      \cup {NewCoinbase("w1", Coin, FirstTick)}

\* byte strings that no Sign produced: one byte, 64 bytes, 70 bytes
Garbage(len) == [len |-> len, key |-> 0, msg |-> <<>>]

\* the values written to field f of tx: each differs from what tx holds.
\* An amount moves by a coin or by the tenth of a millionth of one.
Written(tx, f) ==
    CASE f = "id" -> {[tx EXCEPT !.id = v] : v \in {EmptyString, <<"id">>} \ {tx.id}}
      [] f = "from" -> {[tx EXCEPT !.from = v] : v \in {"", "w3"} \ {tx.from}}
      [] f = "to" -> {[tx EXCEPT !.to = v] : v \in {"", "w3"} \ {tx.to}}
      [] f = "amount" -> {[tx EXCEPT !.amount = tx.amount + d] : d \in {1, Coin}}
      [] f = "timestamp" -> {[tx EXCEPT !.timestamp = @ + 1]}
      [] f = "signature" ->
            {[tx EXCEPT !.signature = v] :
                v \in {EmptyBytes, Garbage(1), Garbage(SigLen), Garbage(SigLen + 6)}
                         \ {tx.signature}}

TxFields == {"id", "from", "to", "amount", "timestamp", "signature"}

TxSign(k) ==
    /\ txCall.signer = 0
    /\ txCall.field = "none"
    /\ txn' = Sign(txn, k)
    /\ txCall' = [NoTxCall EXCEPT !.op = "Sign", !.key = k, !.signer = k]
    /\ UNCHANGED <<now, lib, libCall, libApplied, file, poolVars, netVars>>

\* tx.f = v, once
TxWrite(f) ==
    /\ txCall.field = "none"
    /\ txn' \in Written(txn, f)
    /\ txCall' = [NoTxCall EXCEPT !.op = "Write", !.signer = txCall.signer,
                                  !.field = f]
    /\ UNCHANGED <<now, lib, libCall, libApplied, file, poolVars, netVars>>

TxCallIsValid ==
    /\ txCall' = [txCall EXCEPT !.op = "IsValid", !.ret = TxIsValid(txn),
                                !.key = 0]
    /\ UNCHANGED <<now, lib, libCall, libApplied, file, poolVars, txn, netVars>>

TxCallVerify(k) ==
    /\ txCall' = [txCall EXCEPT !.op = "Verify",
                      !.ret = IF Verify(txn, k) THEN "true" ELSE "false",
                      !.key = k]
    /\ UNCHANGED <<now, lib, libCall, libApplied, file, poolVars, txn, netVars>>

TxInit ==
    /\ now = FirstTick
    /\ lib = NewChain(1, Coin, 0)
    /\ libCall = [op |-> "none", err |-> "ok"]
    /\ libApplied = TRUE
    /\ file = NoFile
    /\ PoolIdle
    /\ txn \in NewTxs
    /\ txCall = NoTxCall
    /\ NetInit

TxNext ==
    \/ \E k \in {1, 2} : TxSign(k)
    \/ \E f \in TxFields : TxWrite(f)
    \/ TxCallIsValid
    \/ \E k \in {1, 2} : TxCallVerify(k)

TxSpec == TxInit /\ [][TxNext]_vars

(***************************************************************************)
(* A mempool through its API, called by goroutines that run concurrently.  *)
(* What a call does between Lock and Unlock is one step. GetAll and GetN   *)
(* read the map one entry a step while they hold the read lock.            *)
(***************************************************************************)
\* the goroutine is back from its call op with ret
Returns(op, ret) == [IdleGoroutine EXCEPT !.op = op, !.ret = ret]

Ok == [NoReturn EXCEPT !.err = "ok"]

\* the goroutine calls a method of the mempool
PoolCall(g, op, tx, txID, txs, n) ==
    /\ gor[g].pc = "idle"
    /\ gor' = [gor EXCEPT ![g] =
                  [IdleGoroutine EXCEPT !.pc = "call", !.op = op, !.tx = tx,
                                        !.id = txID, !.txs = txs, !.n = n]]
    /\ UNCHANGED <<now, lib, libCall, libApplied, file, pool, added, txVars,
                 netVars>>

Calling(g, op) == gor[g].pc = "call" /\ gor[g].op = op

\* Add returns: at once for a transaction that is not valid, else once it
\* has the lock
AddReturn(g) ==
    /\ Calling(g, "Add")
    /\ LET r == MempoolAdd(pool.transactions, gor[g].tx)
       IN  /\ r.err = "invalid transaction" \/ CanLock(pool.mu)
           /\ pool' = [pool EXCEPT !.transactions = r.pool]
           /\ gor' = [gor EXCEPT ![g] =
                         Returns("Add", [NoReturn EXCEPT !.err = r.err])]
           /\ added' = IF r.err = "ok"
                          THEN [added EXCEPT ![gor[g].tx.id] = @ + 1]
                          ELSE added
    /\ UNCHANGED <<now, lib, libCall, libApplied, file, txVars, netVars>>

RemoveReturn(g) ==
    /\ Calling(g, "Remove")
    /\ CanLock(pool.mu)
    /\ pool' = [pool EXCEPT !.transactions = MempoolRemove(@, gor[g].id)]
    /\ gor' = [gor EXCEPT ![g] = Returns("Remove", Ok)]
    /\ added' = [added EXCEPT ![gor[g].id] = 0]
    /\ UNCHANGED <<now, lib, libCall, libApplied, file, txVars, netVars>>

RemoveTransactionsReturn(g) ==
    /\ Calling(g, "RemoveTransactions")
    /\ CanLock(pool.mu)
    /\ pool' = [pool EXCEPT !.transactions = RemoveTransactions(@, gor[g].txs)]
    /\ gor' = [gor EXCEPT ![g] = Returns("RemoveTransactions", Ok)]
    /\ added' = [id \in PoolIds |->
                    IF \E i \in 1..Len(gor[g].txs) : gor[g].txs[i].id = id
                         THEN 0
                    ELSE added[id]]
    /\ UNCHANGED <<now, lib, libCall, libApplied, file, txVars, netVars>>

ClearReturn(g) ==
    /\ Calling(g, "Clear")
    /\ CanLock(pool.mu)
    /\ pool' = [pool EXCEPT !.transactions = MempoolClear(@)]
    /\ gor' = [gor EXCEPT ![g] = Returns("Clear", Ok)]
    /\ added' = [id \in PoolIds |-> 0]
    /\ UNCHANGED <<now, lib, libCall, libApplied, file, txVars, netVars>>

SizeReturn(g) ==
    /\ Calling(g, "Size")
    /\ gor' = [gor EXCEPT ![g] =
                  Returns("Size", [Ok EXCEPT !.size = Size(pool.transactions)])]
    /\ UNCHANGED <<now, lib, libCall, libApplied, file, pool, added, txVars,
                 netVars>>

\* Get returns the entry and true, or nil and false
GetReturn(g) ==
    /\ Calling(g, "Get")
    /\ LET found == MempoolGet(pool.transactions, gor[g].id)
       IN  gor' = [gor EXCEPT ![g] =
                     Returns("Get",
                         [err |-> IF found = {} THEN "absent" ELSE "ok",
                          list |-> IF found = {} THEN <<>>
                                   ELSE <<CHOOSE t \in found : TRUE>>,
                          size |-> 0])]
    /\ UNCHANGED <<now, lib, libCall, libApplied, file, pool, added, txVars,
                 netVars>>

Reads == {"GetAll", "GetN"}

\* GetAll, or GetN, takes the read lock
ReadLock(g) ==
    /\ gor[g].pc = "call"
    /\ gor[g].op \in Reads
    /\ pool' = [pool EXCEPT !.mu = RLock(@, g)]
    /\ gor' = [gor EXCEPT ![g].pc = "read", ![g].snap = pool.transactions]
    /\ UNCHANGED <<now, lib, libCall, libApplied, file, added, txVars, netVars>>

\* the range loop is over: every entry was read, or GetN has its n
ReadOver(g) ==
    \/ \A t \in pool.transactions :
           \E i \in 1..Len(gor[g].list) : gor[g].list[i] = t
    \/ gor[g].op = "GetN" /\ Len(gor[g].list) >= gor[g].n

\* a turn of the range loop: an entry of the map not read yet
ReadStep(g) ==
    /\ gor[g].pc = "read"
    /\ ~ReadOver(g)
    /\ \E t \in pool.transactions :
           /\ \A i \in 1..Len(gor[g].list) : gor[g].list[i] # t
           /\ gor' = [gor EXCEPT ![g].list = Append(@, t)]
    /\ UNCHANGED <<now, lib, libCall, libApplied, file, pool, added, txVars,
                 netVars>>

\* GetAll or GetN gives the read lock back and returns the list
ReadReturn(g) ==
    /\ gor[g].pc = "read"
    /\ ReadOver(g)
    /\ pool' = [pool EXCEPT !.mu = RUnlock(@, g)]
    /\ gor' = [gor EXCEPT ![g] =
                  Returns(gor[g].op, [Ok EXCEPT !.list = gor[g].list])]
    /\ UNCHANGED <<now, lib, libCall, libApplied, file, added, txVars, netVars>>

\* the lists handed to RemoveTransactions: the transactions of a block,
\* valid and no one twice
PoolTxLists ==
    {txs \in UNION { [1..k -> PoolTxs] : k \in 0..2 } :
        /\ \A i \in 1..Len(txs) : TxIsValid(txs[i]) = "ok"
        /\ \A i, j \in 1..Len(txs) : i # j => txs[i] # txs[j]}

NoTx == IdleGoroutine.tx

PoolNext ==
    \E g \in Goroutines :
        \/ \E tx \in PoolTxs : PoolCall(g, "Add", tx, EmptyString, <<>>, 0)
        \/ \E txID \in PoolIds : PoolCall(g, "Remove", NoTx, txID, <<>>, 0)
        \/ \E txs \in PoolTxLists :
               PoolCall(g, "RemoveTransactions", NoTx, EmptyString, txs, 0)
        \/ PoolCall(g, "Clear", NoTx, EmptyString, <<>>, 0)
        \/ PoolCall(g, "Size", NoTx, EmptyString, <<>>, 0)
        \/ \E txID \in PoolIds : PoolCall(g, "Get", NoTx, txID, <<>>, 0)
        \/ PoolCall(g, "GetAll", NoTx, EmptyString, <<>>, 0)
        \/ \E n \in 0..MaxGoroutines :
               PoolCall(g, "GetN", NoTx, EmptyString, <<>>, n)
        \/ AddReturn(g)
        \/ RemoveReturn(g)
        \/ RemoveTransactionsReturn(g)
        \/ ClearReturn(g)
        \/ SizeReturn(g)
        \/ GetReturn(g)
        \/ ReadLock(g)
        \/ ReadStep(g)
        \/ ReadReturn(g)

PoolSpec == LibInit /\ [][PoolNext]_vars

(***************************************************************************)
(* The nodes: main, Node.Mine, Node.SyncWithPeers and the HTTP handlers    *)
(***************************************************************************)
\* the POST requests a broadcast sends, one to every peer of the list
Posts(kind, from, list, body) ==
    {[kind |-> kind, from |-> from, to |-> list[i], body |-> body] :
        i \in 1..Len(list)}

BroadcastBlock(n, c, list) ==
    Posts("block", n, list, <<BlockMarshalJSON(GetLatestBlock(c))>>)

BroadcastTransaction(n, tx, list) ==
    Posts("transaction", n, list, <<TxMarshalJSON(tx)>>)

\* the announcements SyncWithPeers sends: POST /peers {"peer": n}
Announce(n, list) == Posts("peers", n, list, <<>>)

\* http.ListenAndServe of node n is running
Serving(n) == sync[n].up

\* a chain changed: no SyncWithPeers in progress ran undisturbed
Disturbed(s) ==
    [m \in Nodes |-> IF s[m].pc \in {"poll", "replace"}
                     THEN [s[m] EXCEPT !.quiet = FALSE] ELSE s[m]]

\* the first statements of SyncWithPeers on node n with peer list list: the
\* invocation's state and the requests it sends
SyncStart(n, list, up) ==
    IF Len(list) = 0
    THEN [state |-> [IdleSync EXCEPT !.up = up], posts |-> {}]
    ELSE [state |-> [pc |-> "poll", up |-> up, peers |-> list, i |-> 1,
                     maxLength |-> Length(chain[n]), longestChain |-> NoChain,
                     before |-> Length(chain[n]), seen |-> 0, reached |-> {},
                     quiet |-> TRUE, failed |-> {}],
          posts |-> Announce(n, list)]

\* -peers of node n: the node started before it
BootPeers(n) == IF n = 1 THEN <<>> ELSE <<n - 1>>

\* main: AddPeer for every address of -peers, then SyncWithPeers if there
\* is a peer; StartServer follows the sync
Boot(n, list) ==
    /\ sync[n].pc = "boot"
    /\ LET s == SyncStart(n, list, Len(list) = 0)
       IN  /\ sync' = [sync EXCEPT ![n] = s.state]
           /\ msgs' = msgs \cup s.posts
    /\ peers' = [peers EXCEPT ![n] = list]
    /\ UNCHANGED <<now, libVars, reader, chain, mempool, isMining, call>>

\* one turn of the loop over the peers, for the invocation in state st:
\* GET /chain is answered (answered) with the document j or fails; decode,
\* RebuildState, compare. served is the length of the chain behind j if it
\* is valid where it is held, p the peer if it answered.
\* The same turn taking a longer chain without asking IsValid.
PolledUnchecked(st, answered, j, served, p) ==
    LET d == ChainUnmarshalJSON(j)
        c == RebuildState(d.chain)
        take == /\ answered
                /\ d.ok
                /\ Length(c) > st.maxLength
    IN  [st EXCEPT
            !.maxLength = IF take THEN Length(c) ELSE @,
            !.longestChain = IF take THEN c ELSE @,
            !.seen = IF answered /\ served > @ THEN served ELSE @,
            !.reached = IF answered THEN @ \cup p ELSE @,
            !.failed = IF ~answered \/ ~d.ok \/ ~IsValid(c)
                       THEN @ \cup {st.i} ELSE @,
            !.i = @ + 1,
            !.pc = IF st.i = Len(st.peers) THEN "replace" ELSE "poll"]

Polled(st, answered, j, served, p) ==
    LET d == ChainUnmarshalJSON(j)
        c == RebuildState(d.chain)
        take == /\ answered
                /\ d.ok
                /\ Length(c) > st.maxLength
                /\ IsValid(c)
    IN  [st EXCEPT
            !.maxLength = IF take THEN Length(c) ELSE @,
            !.longestChain = IF take THEN c ELSE @,
            !.seen = IF answered /\ served > @ THEN served ELSE @,
            !.reached = IF answered THEN @ \cup p ELSE @,
            !.failed = IF ~answered \/ ~d.ok \/ ~IsValid(c)
                       THEN @ \cup {st.i} ELSE @,
            !.i = @ + 1,
            !.pc = IF st.i = Len(st.peers) THEN "replace" ELSE "poll"]

\* the turn for a peer that is a node: handleGetChain encodes its chain
SyncPoll(n) ==
    /\ sync[n].pc = "poll"
    /\ LET p == sync[n].peers[sync[n].i]
       IN  sync' = [sync EXCEPT ![n] =
                Polled(sync[n], Serving(p), ChainMarshalJSON(chain[p]),
                       IF IsValid(chain[p]) THEN Length(chain[p]) ELSE 0, {p})]
    /\ UNCHANGED <<now, libVars, reader, chain, mempool, peers, isMining, call, msgs>>

\* after the loop: replace the chain if a longer valid one was found
SyncFinish(n) ==
    /\ sync[n].pc = "replace"
    /\ IF sync[n].longestChain # NoChain
       THEN /\ chain' = [chain EXCEPT ![n] =
                    RegisterPublicKey(sync[n].longestChain, WalletAddress(n), n)]
            /\ sync' = [Disturbed(sync) EXCEPT ![n] = IdleSync]
       ELSE /\ chain' = chain
            /\ sync' = [sync EXCEPT ![n] = IdleSync]
    /\ UNCHANGED <<now, libVars, reader, mempool, peers, isMining, call, msgs>>

\* Mine refuses to run twice: the check of isMining under miningMutex
AlreadyMiningNever(n) == FALSE

AlreadyMining(n) == isMining[n]

\* a flag cleared only at the end of Mine, which an early return skips
DeferredSkipped(flags, n, err) ==
    IF err = "ok" THEN [flags EXCEPT ![n] = FALSE] ELSE flags

\* the deferred function of Mine: it runs on every return, whatever the
\* error
Deferred(flags, n, err) == [flags EXCEPT ![n] = FALSE]

\* POST /mine: Mine up to the point where it holds the flag, or its refusal
MineBegin(n, t) ==
    /\ Serving(n)
    /\ call[n][t].pc = "idle"
    /\ IF AlreadyMining(n)
       THEN /\ call' = [call EXCEPT ![n][t].err = "already mining"]
            /\ UNCHANGED isMining
       ELSE /\ call' = [call EXCEPT ![n][t] =
                            [pc |-> "locked", txs |-> <<>>, err |-> "none"]]
            /\ isMining' = [isMining EXCEPT ![n] = TRUE]
    /\ UNCHANGED <<now, libVars, reader, chain, mempool, peers, sync, msgs>>

\* Mempool.GetAll, giving transactions in some order, and Chain.AddBlock;
\* on an error Mine returns it and the deferred function clears the flag
MineAddBlockBefore(n, t, end) ==
    /\ call[n][t].pc = "locked"
    /\ now < end
    /\ \E transactions \in GetAll(mempool[n]) :
         LET r == AddBlock(chain[n], transactions, WalletAddress(n), now)
         IN  /\ chain' = [chain EXCEPT ![n] = r.chain]
             /\ IF r.err # "ok"
                THEN /\ call' = [call EXCEPT ![n][t] =
                                [pc |-> "idle", txs |-> <<>>, err |-> r.err]]
                     /\ isMining' = Deferred(isMining, n, r.err)
                     /\ UNCHANGED <<now, sync>>
                ELSE /\ call' = [call EXCEPT ![n][t] =
                                [pc |-> "added", txs |-> transactions,
                                 err |-> "none"]]
                     /\ now' = now + 1
                     /\ sync' = Disturbed(sync)
                     /\ UNCHANGED isMining
    /\ UNCHANGED <<libVars, reader, mempool, peers, msgs>>

\* ... while the clock is within the blocks of one behaviour
MineAddBlock(n, t) == MineAddBlockBefore(n, t, FirstTick + MaxClock)

\* the rest of Mine: RemoveTransactions, BroadcastBlock, the deferred
\* function
MineFinish(n, t) ==
    /\ call[n][t].pc = "added"
    /\ mempool' = [mempool EXCEPT ![n] = RemoveTransactions(@, call[n][t].txs)]
    /\ msgs' = msgs \cup BroadcastBlock(n, chain[n], peers[n])
    /\ isMining' = Deferred(isMining, n, "ok")
    /\ call' = [call EXCEPT ![n][t] =
                    [pc |-> "idle", txs |-> <<>>, err |-> "ok"]]
    /\ UNCHANGED <<now, libVars, reader, chain, peers, sync>>

\* Node.ReceiveTransaction with the peer list list: the error, the mempool
\* and the requests of the relay
ReceiveTransaction(n, tx, list) ==
    LET r == MempoolAdd(mempool[n], tx)
    IN  [err |-> r.err, pool |-> r.pool,
         posts |-> IF r.err = "ok" THEN BroadcastTransaction(n, tx, list)
                   ELSE {}]

\* the transfers the holder of wallet n signs: to itself and to the others,
\* of one reward each
WalletTxs(n) ==
    {Sign(NewTransaction(WalletAddress(n), to, NodeReward(n), 0), n) :
        to \in Addresses}

\* the program that embeds node n signs tx with Node.Wallet and hands it to
\* ReceiveTransaction
LocalSubmit(n, tx) ==
    /\ Serving(n)
    /\ LET r == ReceiveTransaction(n, tx, peers[n])
       IN  /\ r.err = "ok"
           /\ mempool' = [mempool EXCEPT ![n] = r.pool]
           /\ msgs' = msgs \cup r.posts
    /\ UNCHANGED <<now, libVars, reader, chain, peers, isMining, call, sync>>

\* handleTransaction: POST /transaction from a node
HandleTransaction(m) ==
    /\ m.kind = "transaction"
    /\ Serving(m.to)
    /\ LET list == AddPeer(m.to, peers[m.to], m.from)
           d == TxUnmarshalJSON(m.body[1])
           r == ReceiveTransaction(m.to, d.tx, list)
       IN  /\ peers' = [peers EXCEPT ![m.to] = list]
           /\ IF d.ok
              THEN /\ mempool' = [mempool EXCEPT ![m.to] = r.pool]
                   /\ msgs' = (msgs \ {m}) \cup r.posts
              ELSE /\ mempool' = mempool
                   /\ msgs' = msgs \ {m}
    /\ UNCHANGED <<now, libVars, reader, chain, isMining, call, sync>>

\* a ReceiveBlock that appends the block if it fits the end of the chain
ReceiveBlockApplied(c, newBlock) ==
    IF validateNewBlock(c, newBlock, GetLatestBlock(c)) = "ok"
    THEN applyTransactions([c EXCEPT !.blocks = Append(@, newBlock)],
                           newBlock.transactions)
    ELSE c

\* Node.ReceiveBlock, before it calls SyncWithPeers: the chain c of the node
\* once the block is received; the parameter is not read
ReceiveBlock(c, newBlock) == c

\* handleBlock: POST /block from a node; ReceiveBlock runs SyncWithPeers
HandleBlock(m) ==
    /\ m.kind = "block"
    /\ Serving(m.to)
    /\ sync[m.to].pc = "idle"
    /\ LET list == AddPeer(m.to, peers[m.to], m.from)
           d == BlockUnmarshalJSON(m.body[1])
           s == SyncStart(m.to, list, TRUE)
       IN  /\ peers' = [peers EXCEPT ![m.to] = list]
           /\ IF d.ok
              THEN /\ chain' = [chain EXCEPT ![m.to] = ReceiveBlock(@, d.block)]
                   /\ sync' = [sync EXCEPT ![m.to] = s.state]
                   /\ msgs' = (msgs \ {m}) \cup s.posts
              ELSE /\ chain' = chain
                   /\ sync' = sync
                   /\ msgs' = msgs \ {m}
    /\ UNCHANGED <<now, libVars, reader, mempool, isMining, call>>

\* handlePeers: POST /peers
HandlePeers(m) ==
    /\ m.kind = "peers"
    /\ Serving(m.to)
    /\ peers' = [peers EXCEPT ![m.to] = AddPeer(m.to, @, m.from)]
    /\ msgs' = msgs \ {m}
    /\ UNCHANGED <<now, libVars, reader, chain, mempool, isMining, call, sync>>

\* a request to a node that is not listening fails; the sender drops it
Refuse(m) ==
    /\ ~Serving(m.to)
    /\ msgs' = msgs \ {m}
    /\ UNCHANGED <<now, libVars, reader, chain, mempool, peers, isMining, call, sync>>

\* two nodes, the second started with the first as its peer; node 1 is
\* handed one transfer of its wallet, and no node is asked to mine while it
\* mines
Running == {1, 2}

Transfer == Sign(NewTransaction(WalletAddress(1), WalletAddress(2), NodeReward(1), 0), 1)

Init ==
    /\ now = FirstTick
    /\ LibIdle
    /\ NetInit

Next ==
    \/ \E n \in Running : Boot(n, BootPeers(n))
    \/ \E n \in Running : SyncPoll(n)
    \/ \E n \in Running : SyncFinish(n)
    \/ \E n \in Running : MineBegin(n, 1)
    \/ \E n \in Running : MineAddBlock(n, 1)
    \/ \E n \in Running : MineFinish(n, 1)
    \/ LocalSubmit(1, Transfer)
    \/ \E m \in msgs : HandleTransaction(m)
    \/ \E m \in msgs : HandleBlock(m)
    \/ \E m \in msgs : HandlePeers(m)
    \/ \E m \in msgs : Refuse(m)

Spec == Init /\ [][Next]_vars

\* one node, asked to mine while it mines, and handed the transfers of its
\* wallet
MineNext ==
    \/ Boot(1, BootPeers(1))
    \/ \E t \in Calls : MineBegin(1, t)
    \/ \E t \in Calls : MineAddBlock(1, t)
    \/ \E t \in Calls : MineFinish(1, t)
    \/ \E tx \in WalletTxs(1) : LocalSubmit(1, tx)

MineSpec == Init /\ [][MineNext]_vars

(***************************************************************************)
(* One node that is handed the transfers of its wallet while it mines:     *)
(* Mine step by step, GetAll apart from AddBlock                           *)
(***************************************************************************)
\* transactions := n.Mempool.GetAll(): the values in some order
MineGetAll(n, t) ==
    /\ call[n][t].pc = "locked"
    /\ \E transactions \in GetAll(mempool[n]) :
          call' = [call EXCEPT ![n][t] =
                      [pc |-> "snap", txs |-> transactions, err |-> "none"]]
    /\ UNCHANGED <<now, libVars, reader, chain, mempool, peers, isMining, sync,
                   msgs>>

\* n.Chain.AddBlock(transactions, ...) with the list GetAll gave; on an
\* error Mine returns it and the deferred function clears the flag
MineAddBlockOf(n, t) ==
    /\ call[n][t].pc = "snap"
    /\ now < FirstTick + MaxClock
    /\ LET r == AddBlock(chain[n], call[n][t].txs, WalletAddress(n), now)
       IN  /\ chain' = [chain EXCEPT ![n] = r.chain]
           /\ IF r.err # "ok"
              THEN /\ call' = [call EXCEPT ![n][t] =
                              [pc |-> "idle", txs |-> <<>>, err |-> r.err]]
                   /\ isMining' = Deferred(isMining, n, r.err)
                   /\ UNCHANGED <<now, sync>>
              ELSE /\ call' = [call EXCEPT ![n][t].pc = "added"]
                   /\ now' = now + 1
                   /\ sync' = Disturbed(sync)
                   /\ UNCHANGED isMining
    /\ UNCHANGED <<libVars, reader, mempool, peers, msgs>>

SnapNext ==
    \/ Boot(1, BootPeers(1))
    \/ \E t \in Calls : MineBegin(1, t)
    \/ \E t \in Calls : MineGetAll(1, t)
    \/ \E t \in Calls : MineAddBlockOf(1, t)
    \/ \E t \in Calls : MineFinish(1, t)
    \/ \E tx \in WalletTxs(1) : LocalSubmit(1, tx)

SnapSpec == Init /\ [][SnapNext]_vars

(***************************************************************************)
(* One node that mines and is handed a transfer of its wallet as it was    *)
(* signed, and the same with another id written into it                    *)
(***************************************************************************)
\* a transfer of half a reward, signed by wallet 1
HalfTransfer ==
    Sign(NewTransaction(WalletAddress(1), WalletAddress(2), NodeReward(1) \div 2, 0), 1)

\* tx with its ID field set to another string
Renamed(tx) == [tx EXCEPT !.id = <<"renamed">>]

IdTxs == {HalfTransfer, Renamed(HalfTransfer)}

IdNext ==
    \/ Boot(1, BootPeers(1))
    \/ \E t \in Calls : MineBegin(1, t)
    \/ \E t \in Calls : MineAddBlock(1, t)
    \/ \E t \in Calls : MineFinish(1, t)
    \/ \E tx \in IdTxs : LocalSubmit(1, tx)

IdSpec == Init /\ [][IdNext]_vars

(***************************************************************************)
(* Two nodes that are peers of each other; one transfer is handed to node  *)
(* 1 once, and every request sent is handled                               *)
(***************************************************************************)
\* the transfer is in a mempool, in a block or in a request under way
Known(tx) ==
    \/ \E n \in Nodes : \E t \in mempool[n] : t.id = tx.id
    \/ \E n \in Nodes : \E i \in 1..Len(chain[n].blocks) :
          \E k \in 1..Len(chain[n].blocks[i].transactions) :
              chain[n].blocks[i].transactions[k].id = tx.id
    \/ \E m \in msgs : m.kind = "transaction" /\ m.body[1].id = tx.id

\* the one submission of the transfer
SubmitOnce(n, tx) ==
    /\ ~Known(tx)
    /\ LocalSubmit(n, tx)

\* the HTTP server of a node answers every request, and a request to a
\* port nobody listens on fails
Deliver == \E m \in msgs : HandleTransaction(m) \/ Refuse(m)

GossipNext ==
    \/ \E n \in Running : Boot(n, BootPeers(n))
    \/ \E n \in Running : SyncPoll(n)
    \/ \E n \in Running : SyncFinish(n)
    \/ \E n \in Running : MineBegin(n, 1)
    \/ \E n \in Running : MineAddBlock(n, 1)
    \/ \E n \in Running : MineFinish(n, 1)
    \/ SubmitOnce(1, Transfer)
    \/ \E m \in msgs : HandleTransaction(m)
    \/ \E m \in msgs : HandleBlock(m)
    \/ \E m \in msgs : HandlePeers(m)
    \/ \E m \in msgs : Refuse(m)

GossipSpec == Init /\ [][GossipNext]_vars /\ WF_vars(Deliver)

(***************************************************************************)
(* Two nodes that are peers of each other; node 1 mines, and its wallet    *)
(* hands it one transfer as often as the node takes it                     *)
(***************************************************************************)
\* blocks node 1 mines in one behaviour: one to earn the coin, and two
\* that can hold the transfer
MaxReplayBlocks == 3

ReplayNext ==
    \/ \E n \in Running : Boot(n, BootPeers(n))
    \/ \E n \in Running : SyncPoll(n)
    \/ \E n \in Running : SyncFinish(n)
    \/ MineBegin(1, 1)
    \/ MineAddBlockBefore(1, 1, FirstTick + MaxReplayBlocks)
    \/ MineFinish(1, 1)
    \/ LocalSubmit(1, Transfer)
    \/ \E m \in msgs : HandleTransaction(m)
    \/ \E m \in msgs : HandleBlock(m)
    \/ \E m \in msgs : HandlePeers(m)
    \/ \E m \in msgs : Refuse(m)

ReplaySpec == Init /\ [][ReplayNext]_vars

(***************************************************************************)
(* Two nodes that mine, each while it follows the blocks of the other      *)
(***************************************************************************)
\* blocks the two nodes mine in one behaviour: one by the peer and two by
\* the node that polls it meanwhile
MaxRaceBlocks == 3

RaceNext ==
    \/ \E n \in Running : Boot(n, BootPeers(n))
    \/ \E n \in Running : SyncPoll(n)
    \/ \E n \in Running : SyncFinish(n)
    \/ \E n \in Running : MineBegin(n, 1)
    \/ \E n \in Running : MineAddBlockBefore(n, 1, FirstTick + MaxRaceBlocks)
    \/ \E n \in Running : MineFinish(n, 1)
    \/ \E m \in msgs : HandleBlock(m)
    \/ \E m \in msgs : HandlePeers(m)
    \/ \E m \in msgs : Refuse(m)

RaceSpec == Init /\ [][RaceNext]_vars

(***************************************************************************)
(* Two nodes that mine and follow each other's blocks, and clients that    *)
(* ask them for their chain and for balances while they do                 *)
(***************************************************************************)
\* SyncWithPeers of node n found a longer valid chain and is at the
\* statements that register the key and assign n.Chain
Replacing(n) == sync[n].pc = "replace" /\ sync[n].longestChain # NoChain

\* the chain those statements make n.Chain point to
Replacement(n) == RegisterPublicKey(sync[n].longestChain, WalletAddress(n), n)

\* c as a goroutine may find it that got the pointer from a plain read of
\* n.Chain: nothing orders the writes that filled the Chain before that
\* read, so each field is as written or still the zero value
Unordered(c) ==
    {[blocks |-> b, difficulty |-> d, mining_reward |-> r, balances |-> bal,
      publicKeys |-> c.publicKeys] :
        b \in {<<>>, c.blocks}, d \in {0, c.difficulty},
        r \in {0, c.mining_reward}, bal \in {NoBalances, c.balances}}

\* what a handler of node n can find behind n.Chain: the chain of the
\* node, or, racing with the assignment, the one being put in its place
Views(n) ==
    IF Replacing(n) THEN {chain[n]} \cup Unordered(Replacement(n))
    ELSE {chain[n]}

\* the answer of node n to GET /chain or GET /balance?address=, c being
\* what the handler found behind n.Chain
Answer(n, op, address, c) ==
    [n |-> n, address |-> address, op |-> op,
     balance |-> IF op = "balance" THEN GetBalance(c, address) ELSE 0,
     body |-> ChainMarshalJSON(IF op = "chain" THEN c ELSE NoChain)]

\* handleGetChain
HandleGetChain(n) ==
    /\ Serving(n)
    /\ \E c \in Views(n) : reader' = Answer(n, "chain", "", c)
    /\ UNCHANGED <<now, libVars, chain, mempool, peers, isMining, call, sync,
                   msgs>>

\* handleBalance
HandleBalance(n, address) ==
    /\ Serving(n)
    /\ \E c \in Views(n) : reader' = Answer(n, "balance", address, c)
    /\ UNCHANGED <<now, libVars, chain, mempool, peers, isMining, call, sync,
                   msgs>>

ReadNext ==
    \/ \E n \in Running : Boot(n, BootPeers(n))
    \/ \E n \in Running : SyncPoll(n)
    \/ \E n \in Running : SyncFinish(n)
    \/ \E n \in Running : MineBegin(n, 1)
    \/ \E n \in Running : MineAddBlock(n, 1)
    \/ \E n \in Running : MineFinish(n, 1)
    \/ \E m \in msgs : HandleBlock(m)
    \/ \E m \in msgs : HandlePeers(m)
    \/ \E m \in msgs : Refuse(m)
    \/ \E n \in Running : HandleGetChain(n)
    \/ \E n \in Running : \E address \in Addresses : HandleBalance(n, address)

ReadSpec == Init /\ [][ReadNext]_vars

(***************************************************************************)
(* Handlers of one node that call AddPeer at the same time                 *)
(***************************************************************************)
\* the node whose peer list the goroutines of its handlers add to
Self == 1

\* the goroutines between peersMutex.Lock and the deferred Unlock
PeersLocked == {g \in Goroutines : gor[g].pc \in {"locked", "read", "write"}}

\* a Lock that returns whoever holds the mutex
PeersCanLockAlways(holders) == TRUE

\* peersMutex.Lock returns once no goroutine holds the mutex
PeersCanLock(holders) == holders = {}

\* goroutine g calls AddPeer(peerAddress)
AddPeerCall(g, peerAddress) ==
    /\ gor[g].pc = "idle"
    /\ gor' = [gor EXCEPT ![g] =
                  [IdleGoroutine EXCEPT !.pc = "call", !.op = "AddPeer",
                                        !.n = peerAddress]]
    /\ UNCHANGED <<now, lib, libCall, libApplied, file, pool, added, txVars,
                   netVars>>

\* n.peersMutex.Lock()
AddPeerLock(g) ==
    /\ Calling(g, "AddPeer")
    /\ PeersCanLock(PeersLocked)
    /\ gor' = [gor EXCEPT ![g].pc = "locked"]
    /\ UNCHANGED <<now, lib, libCall, libApplied, file, pool, added, txVars,
                   netVars>>

\* the test for the node's own address and the loop over n.Peers; a
\* return runs the deferred Unlock
AddPeerCheck(g) ==
    /\ gor[g].pc = "locked"
    /\ gor' = [gor EXCEPT ![g].pc =
                  IF AddPeer(Self, peers[Self], gor[g].n) = peers[Self]
                  THEN "idle" ELSE "read"]
    /\ UNCHANGED <<now, lib, libCall, libApplied, file, pool, added, txVars,
                   netVars>>

\* append(n.Peers, peerAddress): the slice is read
AddPeerRead(g) ==
    /\ gor[g].pc = "read"
    /\ gor' = [gor EXCEPT ![g].pc = "write", ![g].list = peers[Self]]
    /\ UNCHANGED <<now, lib, libCall, libApplied, file, pool, added, txVars,
                   netVars>>

\* n.Peers = ...: the slice with the address appended is stored; return
\* and deferred Unlock
AddPeerWrite(g) ==
    /\ gor[g].pc = "write"
    /\ peers' = [peers EXCEPT ![Self] = Append(gor[g].list, gor[g].n)]
    /\ gor' = [gor EXCEPT ![g].pc = "idle"]
    /\ UNCHANGED <<now, lib, libCall, libApplied, file, pool, added, txVars,
                   chain, mempool, isMining, call, sync, msgs, reader>>

PeerNext ==
    \/ \E g \in Goroutines, peerAddress \in Nodes : AddPeerCall(g, peerAddress)
    \/ \E g \in Goroutines : AddPeerLock(g)
    \/ \E g \in Goroutines : AddPeerCheck(g)
    \/ \E g \in Goroutines : AddPeerRead(g)
    \/ \E g \in Goroutines : AddPeerWrite(g)

PeerSpec == Init /\ [][PeerNext]_vars

(***************************************************************************)
(* A line of three nodes, started one after the other, each with the one   *)
(* before it as its peer, and asked to mine once all are up                *)
(***************************************************************************)
Mesh == {1, 2, 3}

\* every request is handled and no Mine or SyncWithPeers is running
Settled ==
    /\ msgs = {}
    /\ \A n \in Nodes : sync[n].pc \in {"idle", "boot"}
    /\ \A n \in Nodes, t \in Calls : call[n][t].pc = "idle"

\* every node of the line serves
MeshFormed == \A n \in Mesh : Serving(n)

StartNode(n) ==
    /\ IF n = 1 THEN TRUE ELSE Serving(n - 1) /\ msgs = {}
    /\ Boot(n, BootPeers(n))

\* POST /mine, sent when the network is quiet
MeshMine(n) ==
    /\ MeshFormed
    /\ Settled
    /\ MineBegin(n, 1)

MeshNext ==
    \/ \E n \in Mesh : StartNode(n)
    \/ \E n \in Mesh : SyncPoll(n)
    \/ \E n \in Mesh : SyncFinish(n)
    \/ \E n \in Mesh : MeshMine(n)
    \/ \E n \in Mesh : MineAddBlock(n, 1)
    \/ \E n \in Mesh : MineFinish(n, 1)
    \/ \E m \in msgs : HandleBlock(m)
    \/ \E m \in msgs : HandlePeers(m)

MeshSpec == Init /\ [][MeshNext]_vars

(***************************************************************************)
(* One node whose peer is a server that is no node of this program: it     *)
(* answers GET /chain with a document of its own making                    *)
(***************************************************************************)
Stranger == 2

\* c with one more block, mined at c's difficulty, of the given transactions
Extend(c, transactions, t) ==
    LET prevBlock == GetLatestBlock(c)
    IN  [c EXCEPT !.blocks = Append(@,
            Mine(NewBlock(prevBlock.index + 1, transactions, prevBlock.hash, t),
                 c.difficulty))]

\* a transfer out of wallet 3 that the holder of key 3 never signed
Theft ==
    LET tx == NewTransaction(WalletAddress(3), WalletAddress(Stranger), Coin, 0)
    IN  [tx EXCEPT !.id = TxHash(tx), !.signature = ForeignSignature(tx)]

ForeignPlain ==
    Extend(NewChain(1, Coin, 0), <<NewCoinbase(WalletAddress(Stranger), Coin, 1)>>, 1)

ForeignForged ==
    Extend(Extend(NewChain(1, Coin, 0), <<NewCoinbase(WalletAddress(3), Coin, 1)>>, 1),
           <<NewCoinbase(WalletAddress(Stranger), Coin, 2), Theft>>, 2)

ForeignOverdraft ==
    Extend(NewChain(1, Coin, 0),
           <<NewCoinbase(WalletAddress(Stranger), Coin, 1), Theft>>, 1)

ForeignNoWork == [ForeignPlain EXCEPT !.difficulty = 2]

\* the document of a chain, every signature written in base64
ForeignJSON(c) ==
    LET j == ChainMarshalJSON(c)
    IN  [j EXCEPT !.blocks = [i \in 1..Len(j.blocks) |->
            [j.blocks[i] EXCEPT !.transactions =
                [k \in 1..Len(j.blocks[i].transactions) |->
                    [j.blocks[i].transactions[k] EXCEPT !.signature =
                        Base64Encode(c.blocks[i].transactions[k].signature)]]]]]

\* a chain whose first block pays its maker
ForeignGenesis ==
    LET c == NewChain(1, Coin, 0)
        paid == Mine(NewBlock(0, <<NewCoinbase(WalletAddress(Stranger), Coin, 0)>>,
                              ZeroHash, 0), 1)
    IN  Extend([c EXCEPT !.blocks = <<paid>>],
               <<NewCoinbase(WalletAddress(Stranger), Coin, 1)>>, 1)

\* a chain in which its maker, holder of key pair Stranger, spends a reward
ForeignSigned ==
    LET me == WalletAddress(Stranger)
    IN  Extend(Extend(NewChain(1, Coin, 0), <<NewCoinbase(me, Coin, 1)>>, 1),
               <<NewCoinbase(me, Coin, 2),
                 Sign(NewTransaction(me, WalletAddress(1), Coin, 0), Stranger)>>, 2)

ForeignChains ==
    {ForeignPlain, ForeignForged, ForeignOverdraft, ForeignNoWork, ForeignGenesis,
     ForeignSigned}

\* the turn of the loop for the peer that is no node
ForeignPoll(n, c) ==
    /\ sync[n].pc = "poll"
    /\ sync[n].peers[sync[n].i] = Stranger
    /\ sync' = [sync EXCEPT ![n] = Polled(sync[n], TRUE, ForeignJSON(c), 0, {})]
    /\ UNCHANGED <<now, libVars, reader, chain, mempool, peers, isMining, call, msgs>>

\* the server POSTs its latest block to the node
ForeignBlock(n, c) ==
    /\ Serving(n)
    /\ \A m \in msgs : m.from # Stranger
    /\ msgs' = msgs \cup {[kind |-> "block", from |-> Stranger, to |-> n,
                            body |-> <<ForeignJSON(c).blocks[Len(c.blocks)]>>]}
    /\ UNCHANGED <<now, libVars, reader, chain, mempool, peers, isMining, call, sync>>

\* the server answers a request of the node and forgets it
ForeignHandle(m) ==
    /\ m.to = Stranger
    /\ msgs' = msgs \ {m}
    /\ UNCHANGED <<now, libVars, reader, chain, mempool, peers, isMining, call, sync>>

OpenNext ==
    \/ Boot(1, <<Stranger>>)
    \/ \E c \in ForeignChains : ForeignPoll(1, c)
    \/ SyncFinish(1)
    \/ MineBegin(1, 1)
    \/ MineAddBlock(1, 1)
    \/ MineFinish(1, 1)
    \/ LocalSubmit(1, Transfer)
    \/ ForeignBlock(1, ForeignPlain)
    \/ \E m \in msgs : HandleBlock(m)
    \/ \E m \in msgs : ForeignHandle(m)

OpenSpec == Init /\ [][OpenNext]_vars

(***************************************************************************)
(* One node with two peers: a node of this program, and a server that is   *)
(* down, or answers GET /chain with a body that does not decode or with a  *)
(* chain that is not valid                                                 *)
(***************************************************************************)
Sound == 3

\* a chain with a transaction whose signature is a single byte; written in
\* hex, as Transaction.MarshalJSON does, its two characters are no base64
ForeignStub ==
    LET me == WalletAddress(Stranger)
        tx == Sign(NewTransaction(me, WalletAddress(1), Coin, 0), Stranger)
    IN  Extend(Extend(NewChain(1, Coin, 0), <<NewCoinbase(me, Coin, 1)>>, 1),
               <<NewCoinbase(me, Coin, 2),
                 [tx EXCEPT !.signature.len = 1]>>, 2)

\* what the server does with a GET /chain: no answer, or a body
FaultyResponses ==
    { [answered |-> FALSE, body |-> ChainMarshalJSON(NoChain)],
      [answered |-> TRUE, body |-> ChainMarshalJSON(ForeignStub)],
      [answered |-> TRUE, body |-> ForeignJSON(ForeignOverdraft)],
      [answered |-> TRUE, body |-> ForeignJSON(ForeignNoWork)] }

\* the turn of the loop for the server
FaultyPoll(n, r) ==
    /\ sync[n].pc = "poll"
    /\ sync[n].peers[sync[n].i] = Stranger
    /\ sync' = [sync EXCEPT ![n] = Polled(sync[n], r.answered, r.body, 0, {})]
    /\ UNCHANGED <<now, libVars, reader, chain, mempool, peers, isMining, call, msgs>>

\* the turn of the loop for the peer that is a node
SoundPoll(n) ==
    /\ sync[n].pc = "poll"
    /\ sync[n].peers[sync[n].i] # Stranger
    /\ SyncPoll(n)

\* -peers of node 1: the two in either order
FaultPeers == {<<Stranger, Sound>>, <<Sound, Stranger>>}

FaultNext ==
    \/ Boot(Sound, <<>>)
    \/ \E list \in FaultPeers : Boot(1, list)
    \/ \E r \in FaultyResponses : FaultyPoll(1, r)
    \/ \E n \in {1, Sound} : SoundPoll(n)
    \/ \E n \in {1, Sound} : SyncFinish(n)
    \/ \E n \in {1, Sound} : MineBegin(n, 1)
    \/ \E n \in {1, Sound} : MineAddBlock(n, 1)
    \/ \E n \in {1, Sound} : MineFinish(n, 1)
    \/ \E m \in msgs : HandleBlock(m)
    \/ \E m \in msgs : HandlePeers(m)
    \/ \E m \in msgs : Refuse(m)
    \/ \E m \in msgs : ForeignHandle(m)

FaultSpec == Init /\ [][FaultNext]_vars

(***************************************************************************)
(* Two nodes that mine and follow each other's blocks, and a client that   *)
(* POSTs blocks of its own making to them                                  *)
(***************************************************************************)
\* the address the client gives in X-Node-Address: nothing listens there
Client == 3

\* the block that would extend c: index, previous hash and proof of work
\* as validateNewBlock asks, paying the reward to the client
NextBlock(c, t) ==
    LET prevBlock == GetLatestBlock(c)
    IN  Mine(NewBlock(prevBlock.index + 1,
                      <<NewCoinbase(WalletAddress(Client), c.mining_reward, t)>>,
                      prevBlock.hash, t), c.difficulty)

\* the bodies the client sends to node n: the block that extends the chain
\* of n, and the same with a transfer whose signature string is no base64
ClientBodies(n) ==
    LET next == NextBlock(chain[n], now)
        spend == Sign(NewTransaction(WalletAddress(Client), WalletAddress(n),
                                     chain[n].mining_reward, 0), Client)
        stub == [spend EXCEPT !.signature.len = 1]
    IN  {BlockMarshalJSON(next),
         BlockMarshalJSON([next EXCEPT !.transactions = Append(@, stub)])}

\* the node the client sends its blocks to, which holds a transfer of its
\* wallet in its mempool, and its peer, which mines
Receiver == 1
Sender == 2

\* POST /block by the client, one request at a time
ClientPost(n, body) ==
    /\ Serving(n)
    /\ \A m \in msgs : m.from # Client
    /\ msgs' = msgs \cup {[kind |-> "block", from |-> Client, to |-> n,
                            body |-> <<body>>]}
    /\ UNCHANGED <<now, libVars, reader, chain, mempool, peers, isMining, call, sync>>

BlockNext ==
    \/ \E n \in Running : Boot(n, BootPeers(n))
    \/ \E n \in Running : SyncPoll(n)
    \/ \E n \in Running : SyncFinish(n)
    \/ MineBegin(Sender, 1)
    \/ MineAddBlock(Sender, 1)
    \/ MineFinish(Sender, 1)
    \/ LocalSubmit(Receiver, Transfer)
    \/ \E body \in ClientBodies(Receiver) : ClientPost(Receiver, body)
    \/ \E m \in msgs : HandleTransaction(m)
    \/ \E m \in msgs : HandleBlock(m)
    \/ \E m \in msgs : HandlePeers(m)
    \/ \E m \in msgs : Refuse(m)

BlockSpec == Init /\ [][BlockNext]_vars

(***************************************************************************)
(* Claims about the chain through its API (ChainSpec)                      *)
(***************************************************************************)
NonCoinbaseIn(c) ==
    {<<i, j>> \in (1..Len(c.blocks)) \X (1..(MaxListLen + 1)) :
        /\ j <= Len(c.blocks[i].transactions)
        /\ ~IsCoinbase(c.blocks[i].transactions[j])}

\* C1: every chain that New and any sequence of AddBlock calls, failed or
\* not, produce passes IsValid.
C1_AddBlockKeepsValid == IsValid(lib)

\* C1 witness: two blocks appended, the last one carrying a transfer, the
\* last call an AddBlock
C1_Witness ==
    /\ Length(lib) = 3
    /\ libCall.op = "AddBlock"
    /\ \E p \in NonCoinbaseIn(lib) : p[1] = 3

\* C2: no balance is ever negative, and every transfer applied found its
\* sender holding at least the amount at its turn in the block's list.
C2_NoOverdraft ==
    /\ libApplied
    /\ \A a \in Addresses : lib.balances[a] >= 0

\* C2 witness: a block with two transfers has been applied
C2_Witness ==
    \E p \in NonCoinbaseIn(lib), q \in NonCoinbaseIn(lib) :
        p[1] = q[1] /\ p[2] < q[2]

\* C10: a step in which AddBlock returns an error leaves blocks, balances
\* and the public-key registry as they were.
C10_ErrorLeavesChain ==
    [][(libCall'.op = "AddBlock" /\ libCall'.err # "ok") => lib' = lib]_vars

\* C10 witness: AddBlock has just refused an overdraft on a chain that
\* holds balances
C10_Witness ==
    /\ libCall.op = "AddBlock"
    /\ libCall.err = "insufficient balance"
    /\ \E a \in Addresses : lib.balances[a] > 0

\* the coins the balances of c hold, over the addresses S
RECURSIVE SumOfBalances(_, _)
SumOfBalances(c, S) ==
    IF S = {} THEN 0
    ELSE LET a == CHOOSE x \in S : TRUE
         IN  GetBalance(c, a) + SumOfBalances(c, S \ {a})

\* the first transaction of block i of c is a coinbase of the mining reward
CoinbaseFirst(c, i) ==
    /\ Len(c.blocks[i].transactions) >= 1
    /\ IsCoinbase(c.blocks[i].transactions[1])
    /\ c.blocks[i].transactions[1].amount = c.mining_reward

\* ... and no other transaction of the block is a coinbase
CoinbaseOnlyFirst(c, i) ==
    \A k \in 2..Len(c.blocks[i].transactions) :
        ~IsCoinbase(c.blocks[i].transactions[k])

\* C32: whatever lists of transactions that pass IsValid AddBlock is
\* called with, lists with a transaction from "COINBASE" included, every
\* block after the genesis block holds one coinbase, its first
\* transaction, of the mining reward, and the balances sum up to the
\* mining reward times the number of blocks after the genesis block.
C32_SupplyIsMined ==
    /\ \A i \in 2..Len(lib.blocks) :
          CoinbaseFirst(lib, i) /\ CoinbaseOnlyFirst(lib, i)
    /\ SumOfBalances(lib, Addresses) = lib.mining_reward * (Len(lib.blocks) - 1)

\* C39: for the same blocks before it, the list of a block passes the
\* balance test of validateTransactions in AddBlock iff the block passes
\* the replay of balances in IsValid; so for a block in which the miner
\* spends the reward of that block.
C39_ReplayAgrees ==
    (libCall.op = "AddBlock" /\ libCall.err \in {"ok", "insufficient balance"})
        => (libCall.err = "ok" <=> libCall.replayed)

(***************************************************************************)
(* Claims about the ledger, saved and loaded (StoreSpec)                   *)
(***************************************************************************)
\* the transactions of blocks i.. in the order the chain holds them
RECURSIVE Ledger(_, _)
Ledger(blocks, i) ==
    IF i > Len(blocks) THEN <<>>
    ELSE blocks[i].transactions \o Ledger(blocks, i + 1)

\* what address a received less what it sent in transactions i.. of txs
RECURSIVE NetReceived(_, _, _)
NetReceived(txs, a, i) ==
    IF i > Len(txs) THEN 0
    ELSE (IF txs[i].to = a THEN txs[i].amount ELSE 0)
         - (IF ~IsCoinbase(txs[i]) /\ txs[i].from = a THEN txs[i].amount ELSE 0)
         + NetReceived(txs, a, i + 1)

BalancesAreReplay(c) ==
    \A a \in Addresses : GetBalance(c, a) = NetReceived(Ledger(c.blocks, 1), a, 1)

Transfers(c) ==
    {c.blocks[i].transactions[k] :
        <<i, k>> \in {p \in (1..Len(c.blocks)) \X (1..(MaxListLen + 1)) :
                        /\ p[2] <= Len(c.blocks[p[1]].transactions)
                        /\ ~IsCoinbase(c.blocks[p[1]].transactions[p[2]])}}

\* the chain is as AddBlock built it: every transfer carries the 64 bytes
\* Sign produced
BuiltByAddBlock(c) == \A tx \in Transfers(c) : tx.signature.len = SigLen

\* C24: a chain built by AddBlock, saved to a file and loaded from it right
\* away, has blocks equal to the saved chain's field for field, each
\* signature of a transfer included, the same difficulty and mining_reward,
\* IsValid() true and the same GetBalance for every address.
C24_RoundTrip ==
    [][/\ libCall.op = "SaveToFile" /\ libCall'.op = "LoadFromFile"
       /\ BuiltByAddBlock(lib)
       => /\ libCall'.err = "ok"
          /\ lib'.blocks = lib.blocks
          /\ lib'.difficulty = lib.difficulty
          /\ lib'.mining_reward = lib.mining_reward
          /\ IsValid(lib')
          /\ \A a \in Addresses : GetBalance(lib', a) = GetBalance(lib, a)]_vars

(***************************************************************************)
(* Claims about a transaction (TxSpec)                                     *)
(***************************************************************************)
\* the predicate the claim gives for the shape of a transaction
is_valid_shape(tx) ==
    /\ tx.from # ""
    /\ tx.to # ""
    /\ tx.amount > 0
    /\ IsCoinbase(tx) \/ tx.signature.len = SigLen
    /\ tx.id # EmptyString

\* C21: IsValid returns nil iff from and to are not empty, the amount is
\* positive, the id is not empty and the signature is 64 bytes long, the
\* last not being asked of a coinbase transaction.
C21_IsValidIsShape ==
    txCall.op = "IsValid" => (txCall.ret = "ok" <=> is_valid_shape(txn))

\* C22: a transaction signed with the private key of a pair verifies under
\* the public key of that pair and under no other; once any of its fields
\* (id, from, to, amount, timestamp, signature) has been written to with
\* another value, it does not verify any more.
C22_VerifyAfterSign ==
    txCall.op = "Verify" /\ txCall.signer # 0 =>
        IF txCall.field = "none"
             THEN txCall.ret = "true" <=> txCall.key = txCall.signer
        ELSE txCall.ret = "false"

(***************************************************************************)
(* Claims about a chain written to in place (TamperSpec)                   *)
(***************************************************************************)
\* C20: after a write to a hashed field or to the stored hash of any block
\* of a chain, the genesis block included, IsValid() is false; and it is
\* false as well when the hash of the block written to, which is not the
\* last, was recomputed after the write.
C20_TamperDetected ==
    libCall.op = "Tamper" /\ (libCall.rehash => libCall.index < Length(lib) - 1)
        => ~IsValid(lib)

(***************************************************************************)
(* Claims about validateNewBlock (ValidateSpec)                            *)
(***************************************************************************)
\* the first D digits of the hash are 0
LeadingZeros(hash, D) == SubSeq(hash.digits, 1, D) = [i \in 1..D |-> 0]

\* C28: validateNewBlock(new, prev) returns nil iff new.index is
\* prev.index + 1, new.previous_hash is prev.hash, the hash computed from
\* new is the hash it holds, and the first D digits of that hash are 0, D
\* the difficulty of the chain; so an error comes back when one of the
\* four fails, alone or not.
C28_ValidIffFour ==
    libCall.op = "validateNewBlock" =>
        LET new == libCall.newBlock
            prev == libCall.prevBlock
        IN  libCall.err = "ok" <=>
                /\ new.index = prev.index + 1
                /\ new.previous_hash = prev.hash
                /\ CalculateHash(new) = new.hash
                /\ LeadingZeros(new.hash, lib.difficulty)

\* C28 witness: a block that follows prev, names its hash and holds the
\* hash computed from it, but was mined to less than the difficulty, is
\* refused
C28_Witness ==
    /\ libCall.op = "validateNewBlock"
    /\ libCall.err # "ok"
    /\ libCall.newBlock.index = libCall.prevBlock.index + 1
    /\ libCall.newBlock.previous_hash = libCall.prevBlock.hash
    /\ CalculateHash(libCall.newBlock) = libCall.newBlock.hash
    /\ ~LeadingZeros(libCall.newBlock.hash, lib.difficulty)

(***************************************************************************)
(* Claims about the mempool (PoolSpec)                                     *)
(***************************************************************************)
\* goroutine g returns from its call of op in this step
PoolReturns(g, op) ==
    /\ gor[g].pc \in {"call", "read"}
    /\ gor[g].op = op
    /\ gor'[g].pc = "idle"

Holds(m, id) == \E t \in m : t.id = id

\* the ids added with success and not removed since
Live == {id \in PoolIds : added[id] > 0}

ListedIds(txs) == {txs[i].id : i \in 1..Len(txs)}

\* C17: whatever Add, Remove, RemoveTransactions and Clear calls were made,
\* Size() is the number of distinct ids added with success and not removed
\* since; an Add of an id that is present fails and leaves the pool as it
\* was; a Remove of an absent id changes nothing; RemoveTransactions
\* removes the listed ids, all of them and nothing else.
C17_SizeCountsAdded ==
    /\ [](Size(pool.transactions) = Cardinality(Live))
    /\ [][\A g \in Goroutines :
          LET m == pool.transactions
              after == pool'.transactions
          IN  /\ PoolReturns(g, "Size") =>
                    gor'[g].ret.size = Cardinality(Live)
              /\ PoolReturns(g, "Add") /\ Holds(m, gor[g].tx.id) =>
                    gor'[g].ret.err # "ok" /\ after = m
              /\ PoolReturns(g, "Remove") /\ ~Holds(m, gor[g].id) =>
                    after = m
              /\ PoolReturns(g, "RemoveTransactions") =>
                    /\ after \subseteq m
                    /\ \A t \in m :
                          t \in after <=> t.id \notin ListedIds(gor[g].txs)
              /\ PoolReturns(g, "Clear") => after = {}]_vars

\* C17 witness: an Add of a present id has just failed, after a
\* RemoveTransactions took one of two entries away
C17_Witness ==
    /\ gor[1].pc = "idle"
    /\ gor[1].op = "RemoveTransactions"
    /\ gor[2].pc = "idle"
    /\ gor[2].op = "Add"
    /\ gor[2].ret.err = "already in mempool"
    /\ Size(pool.transactions) = 1
    /\ Cardinality(Live) = 1

\* C18: Add(tx) fails iff tx.IsValid fails or the id of tx is present; a
\* failed Add leaves the mempool as it was; at any time every member is
\* valid in shape and no two members have one id.
C18_AddFailsIff ==
    [][\A g \in Goroutines :
          LET m == pool.transactions
              after == pool'.transactions
          IN  /\ PoolReturns(g, "Add") =>
                    /\ gor'[g].ret.err # "ok" <=>
                          (TxIsValid(gor[g].tx) # "ok" \/ Holds(m, gor[g].tx.id))
                    /\ gor'[g].ret.err # "ok" => after = m
                    /\ gor'[g].ret.err = "ok" => after = m \cup {gor[g].tx}
              /\ \A t \in after : TxIsValid(t) = "ok"
              /\ \A t, u \in after : t.id = u.id => t = u]_vars

\* C18 witness: one Add was refused for an unsigned transaction whose id
\* is present, another for the id alone
C18_Witness ==
    /\ gor[1].pc = "idle"
    /\ gor[1].op = "Add"
    /\ gor[1].ret.err = "invalid transaction"
    /\ gor[2].pc = "idle"
    /\ gor[2].op = "Add"
    /\ gor[2].ret.err = "already in mempool"
    /\ Size(pool.transactions) = 2

\* C19: whatever the other goroutines are in the middle of, GetAll and
\* GetN return the map as it was when they took the lock and as it is when
\* they give it back, Size returns its size; an Add of a valid transaction
\* whose id is absent succeeds, adds that entry alone and leaves the calls
\* the others have pending as they were, so that concurrent Adds of
\* distinct ids all succeed; and no id is ever added with success twice
\* without a removal between, so that of concurrent Adds of one id one
\* succeeds.
C19_Atomic ==
    [][\A g \in Goroutines :
          LET m == pool.transactions
              after == pool'.transactions
          IN  /\ PoolReturns(g, "GetAll") =>
                    /\ gor[g].snap = m
                    /\ gor'[g].ret.list \in GetAll(m)
              /\ PoolReturns(g, "GetN") =>
                    /\ gor[g].snap = m
                    /\ gor'[g].ret.list \in GetN(m, gor[g].n)
              /\ PoolReturns(g, "Size") => gor'[g].ret.size = Cardinality(m)
              /\ gor[g].pc = "read" /\ gor'[g].pc = "read" =>
                    after = gor[g].snap
              /\ PoolReturns(g, "Add") /\ TxIsValid(gor[g].tx) = "ok"
                                       /\ ~Holds(m, gor[g].tx.id) =>
                    /\ gor'[g].ret.err = "ok"
                    /\ after = m \cup {gor[g].tx}
                    /\ Cardinality(after) = Cardinality(m) + 1
                    /\ \A h \in Goroutines \ {g} : gor'[h] = gor[h]
              /\ PoolReturns(g, "Add") /\ gor'[g].ret.err = "ok" =>
                    \A h \in Goroutines \ {g} :
                        Calling(h, "Add") /\ gor[h].tx.id = gor[g].tx.id =>
                            MempoolAdd(after, gor[h].tx).err # "ok"
              /\ \A txID \in PoolIds : added'[txID] <= 1]_vars

\* C19 witness: a GetAll has read one of two entries and holds the read
\* lock, while another goroutine has called Remove for one of the two
C19_Witness ==
    /\ gor[1].pc = "read"
    /\ gor[1].op = "GetAll"
    /\ Len(gor[1].list) = 1
    /\ Cardinality(gor[1].snap) = 2
    /\ Calling(2, "Remove")
    /\ Holds(gor[1].snap, gor[2].id)
    /\ pool.mu.readers = {1}

(***************************************************************************)
(* Claims about Node.Mine (MineSpec)                                       *)
(***************************************************************************)
\* the invocations of Mine on node n that hold the flag
InProgress(n) == {t \in Calls : call[n][t].pc # "idle"}

\* the mempool of node n holds exactly two transactions, of one sender,
\* both signed by the sender's registered key, each within the sender's
\* balance, their sum above it; withSelf admits a transfer to the sender
DoubleSpend(n, withSelf) ==
    \E a \in mempool[n], b \in mempool[n] :
        /\ a # b
        /\ mempool[n] = {a, b}
        /\ a.from = b.from
        /\ ~IsCoinbase(a)
        /\ chain[n].publicKeys[a.from] # 0
        /\ Verify(a, chain[n].publicKeys[a.from])
        /\ Verify(b, chain[n].publicKeys[a.from])
        /\ a.amount <= GetBalance(chain[n], a.from)
        /\ b.amount <= GetBalance(chain[n], a.from)
        /\ a.amount + b.amount > GetBalance(chain[n], a.from)
        /\ withSelf \/ (a.to # a.from /\ b.to # b.from)

\* invocation t of Mine on node n takes its snapshot and runs AddBlock, and
\* AddBlock refuses with insufficient balance, chain and mempool untouched
RefusedOverdraft(n, t) ==
    (call[n][t].pc = "locked" /\ call'[n][t].pc # "locked")
        => /\ call'[n][t].pc = "idle"
           /\ call'[n][t].err = "insufficient balance"
           /\ chain'[n] = chain[n]
           /\ mempool'[n] = mempool[n]

\* C3 as stated: with two signed transactions of one sender in the mempool,
\* each within the balance and their sum above it, Mine fails with
\* insufficient balance in whatever order the snapshot lists them, and
\* leaves chain and mempool as they were.
C3_AsStated ==
    [][\A n \in Nodes, t \in Calls :
          DoubleSpend(n, TRUE) => RefusedOverdraft(n, t)]_vars

\* C3 amended: the same, for two transactions neither of which pays the
\* sender itself.
C3_DoubleSpendRefused ==
    [][\A n \in Nodes, t \in Calls :
          DoubleSpend(n, FALSE) => RefusedOverdraft(n, t)]_vars

\* C3 witness: Mine has just refused two transfers to other wallets
C3_Witness ==
    \E t \in Calls :
        /\ DoubleSpend(1, FALSE)
        /\ call[1][t].err = "insufficient balance"
        /\ Length(chain[1]) = 2

\* C4: at most one invocation of Mine on a node is past the flag at a
\* time; an invocation made while another holds the flag returns "already
\* mining" and changes neither chain nor mempool.
C4_OneMineAtATime ==
    [][\A n \in Nodes :
          /\ Cardinality(InProgress(n))' <= 1
          /\ \A t \in Calls :
                (/\ call[n][t].pc = "idle"
                 /\ call'[n][t] # call[n][t]
                 /\ InProgress(n) # {})
                    => /\ call'[n][t].pc = "idle"
                       /\ call'[n][t].err = "already mining"
                       /\ chain'[n] = chain[n]
                       /\ mempool'[n] = mempool[n]]_vars

\* C4 witness: one invocation has added its block and not yet returned,
\* the other was refused
C4_Witness ==
    \E t \in Calls, u \in Calls :
        /\ call[1][t].pc = "added"
        /\ call[1][u].pc = "idle"
        /\ call[1][u].err = "already mining"

\* invocation t of Mine on node n takes its snapshot and AddBlock succeeds
MineAdds(n, t) == call[n][t].pc = "locked" /\ call'[n][t].pc = "added"

\* invocation t of Mine on node n returns nil
MineReturns(n, t) == call[n][t].pc = "added" /\ call'[n][t].pc = "idle"

\* the last block of c holds a coinbase to address w of c's reward, then
\* the transactions snap in their order
TailIsCoinbaseThen(c, w, snap) ==
    LET tail == GetLatestBlock(c)
    IN  /\ Len(tail.transactions) = Len(snap) + 1
        /\ tail.transactions[1].from = COINBASE
        /\ tail.transactions[1].to = w
        /\ tail.transactions[1].amount = c.mining_reward
        /\ \A i \in 1..Len(snap) : tail.transactions[i + 1] = snap[i]

\* what err of a call holds when AddBlock returned no error to it
NoAddBlockError == {"none", "ok", "already mining"}

\* C26: the flag is set exactly while an invocation of Mine is between
\* taking it and returning; an invocation that took the flag and returns,
\* with nil or with the error of AddBlock, leaves it false, and an
\* invocation made while no other is in progress is not refused.
C26_FlagReleased ==
    /\ [](\A n \in Nodes : isMining[n] <=> InProgress(n) # {})
    /\ [][\A n \in Nodes : \A t \in Calls :
            /\ (call[n][t].pc # "idle" /\ call'[n][t].pc = "idle")
                  => ~isMining'[n]
            /\ (/\ call[n][t].pc = "idle"
                /\ call'[n][t] # call[n][t]
                /\ InProgress(n) = {})
                  => call'[n][t].pc = "locked"]_vars

\* C26 witness: an invocation of Mine returned the error of AddBlock, and
\* an invocation made after it holds the flag
C26_Witness ==
    \E t \in Calls, u \in Calls :
        /\ call[1][t].pc = "idle"
        /\ call[1][t].err \notin NoAddBlockError
        /\ call[1][u].pc = "locked"
        /\ isMining[1]

\* C15: a Mine that succeeds, the chain not being replaced meanwhile,
\* appends exactly one block, mined to the difficulty, whose transactions
\* are the coinbase (to the node's wallet, of the mining reward) followed by
\* the snapshot of the mempool; every balance changes by what the snapshot
\* pays it less what it takes from it, the miner's by the reward besides;
\* and on return the snapshot's transactions are gone from the mempool, the
\* others kept.
C15_MineAppends ==
    [][\A n \in Nodes, t \in Calls :
          /\ MineAdds(n, t) =>
                LET snap == call'[n][t].txs
                    w == WalletAddress(n)
                IN  /\ {snap[i] : i \in 1..Len(snap)} = mempool[n]
                    /\ Len(snap) = Cardinality(mempool[n])
                    /\ Length(chain'[n]) = Length(chain[n]) + 1
                    /\ SubSeq(chain'[n].blocks, 1, Length(chain[n])) = chain[n].blocks
                    /\ TailIsCoinbaseThen(chain'[n], w, snap)
                    /\ MeetsTarget(GetLatestBlock(chain'[n]).hash, chain[n].difficulty)
                    /\ \A a \in Addresses :
                          GetBalance(chain'[n], a) =
                              GetBalance(chain[n], a)
                                + (IF a = w THEN chain[n].mining_reward ELSE 0)
                                + NetReceived(snap, a, 1)
          /\ MineReturns(n, t) =>
                LET snap == call[n][t].txs
                IN  /\ call'[n][t].err = "ok"
                    /\ chain'[n] = chain[n]
                    /\ TailIsCoinbaseThen(chain'[n], WalletAddress(n), snap)
                    /\ mempool'[n] = mempool[n] \ {snap[i] : i \in 1..Len(snap)}
                    /\ \A i \in 1..Len(snap) :
                          \A tx \in mempool'[n] : tx.id # snap[i].id]_vars

\* C15 witness: node 1 mined a block, was handed a transfer of one reward to
\* wallet 2 and mined it: it holds one reward, wallet 2 the other, and the
\* mempool is empty
C15_Witness ==
    \E t \in Calls :
        /\ call[1][t].pc = "idle"
        /\ call[1][t].err = "ok"
        /\ Length(chain[1]) = 3
        /\ Len(GetLatestBlock(chain[1]).transactions) = 2
        /\ GetLatestBlock(chain[1]).transactions[2].to = WalletAddress(2)
        /\ mempool[1] = {}
        /\ GetBalance(chain[1], WalletAddress(1)) = NodeReward(1)
        /\ GetBalance(chain[1], WalletAddress(2)) = NodeReward(1)

\* the ids of the transactions in the blocks of c
MinedIds(c) ==
    {c.blocks[i].transactions[k].id :
        <<i, k>> \in {p \in (1..Len(c.blocks)) \X (1..(MaxListLen + 1)) :
                        p[2] <= Len(c.blocks[p[1]].transactions)}}

\* C16: while no Mine is running on a node, its mempool holds no
\* transaction that is in a block of its chain.
C16_MinedNotPending ==
    \A n \in Nodes :
        (\A t \in Calls : call[n][t].pc = "idle")
            => \A tx \in mempool[n] : tx.id \notin MinedIds(chain[n])

(***************************************************************************)
(* Claims about Node.SyncWithPeers (Spec)                                  *)
(***************************************************************************)
\* SyncWithPeers on node n returns in this step
SyncReturns(n) == sync[n].pc = "replace" /\ sync'[n].pc = "idle"

\* C5: when SyncWithPeers returns, the node's chain is valid and at least
\* as long as it was when the sync began and as every valid chain a peer
\* served during the sync.
C5_SyncCatchesUp ==
    [][\A n \in Nodes :
          SyncReturns(n) =>
              /\ Length(chain'[n]) >= sync[n].before
              /\ Length(chain'[n]) >= sync[n].seen
              /\ IsValid(chain'[n])]_vars

\* C6: SyncWithPeers replaces the chain iff a peer served a valid chain
\* strictly longer than the node's; the chain it puts in place is valid,
\* strictly longer than the one replaced and as long as the longest valid
\* chain served.
C6_ReplaceIffLonger ==
    [][\A n \in Nodes :
          SyncReturns(n) =>
              /\ (sync[n].longestChain # NoChain) =>
                     /\ IsValid(chain'[n])
                     /\ Length(chain'[n]) > Length(chain[n])
                     /\ Length(chain'[n]) >= sync[n].seen
              /\ (sync[n].seen > Length(chain[n])) =>
                     sync[n].longestChain # NoChain
              /\ (sync[n].longestChain = NoChain) => chain'[n] = chain[n]]_vars

\* C7: a sync during which no chain changed, and which reached a peer that
\* holds a valid chain strictly longer than every other node's, leaves the
\* node with that chain, block for block.
C7_Converges ==
    [][\A n \in Nodes :
          (SyncReturns(n) /\ sync[n].quiet) =>
              \A p \in sync[n].reached :
                  (/\ IsValid(chain[p])
                   /\ \A q \in Nodes \ {p} : Length(chain[q]) < Length(chain[p]))
                      => chain'[n].blocks = chain[p].blocks]_vars

\* C29: the node that handles a POST /block of another node has the
\* sender in the peer list the sync started by that block polls; and when
\* that sync returns, the node's chain is at least as long as every valid
\* chain it was served, the sender's among them.
C29_SenderPolled ==
    [][\A R \in Nodes :
          /\ \A m \in msgs \ msgs' :
                (/\ m.kind = "block" /\ m.to = R /\ m.from # R
                 /\ sync[R].pc = "idle" /\ sync'[R].pc = "poll")
                    => /\ \E i \in 1..Len(peers'[R]) : peers'[R][i] = m.from
                       /\ \E i \in 1..Len(sync'[R].peers) :
                              sync'[R].peers[i] = m.from
          /\ (SyncReturns(R) /\ sync[R].up)
                => Length(chain'[R]) >= sync[R].seen]_vars

(***************************************************************************)
(* Claims about transactions in the chains of the nodes (ReplaySpec)       *)
(***************************************************************************)
\* the places of the transactions of c: block and index in the block
Positions(c) ==
    {p \in (1..Len(c.blocks)) \X (1..(MaxListLen + 1)) :
        p[2] <= Len(c.blocks[p[1]].transactions)}

\* C33: whatever the nodes receive, relay, mine and adopt, no transaction
\* id stands at two places of the chain of a node, so that no signed
\* transfer is applied to the balances twice.
C33_NoReplay ==
    \A n \in Nodes : \A p \in Positions(chain[n]), q \in Positions(chain[n]) :
        p # q => chain[n].blocks[p[1]].transactions[p[2]].id
                    # chain[n].blocks[q[1]].transactions[q[2]].id

(***************************************************************************)
(* Claims about Mine and SyncWithPeers on one node (RaceSpec, Spec)        *)
(***************************************************************************)
\* C34: while a node mines and runs SyncWithPeers at the same time, the
\* length of its chain never goes down: each length seen is at least every
\* length seen before.
C34_LengthNeverDrops ==
    [][\A n \in Nodes : Length(chain'[n]) >= Length(chain[n])]_vars

\* b is a block node n mined from the list txs: its coinbase, paid to the
\* wallet of n, followed by txs
MinedBy(n, b, txs) ==
    /\ Len(b.transactions) = Len(txs) + 1
    /\ IsCoinbase(b.transactions[1])
    /\ b.transactions[1].to = WalletAddress(n)
    /\ \A k \in 1..Len(txs) : b.transactions[k + 1] = txs[k]

\* invocation t of Mine on node n returns nil in this step
MineReturnsOk(n, t) == call[n][t].pc = "added" /\ call'[n][t].pc = "idle"

\* C35: when Mine returns nil, whether or not a SyncWithPeers of the node
\* ran meanwhile, the block it mined is in the chain of the node, the
\* block it broadcast is that block, and every transaction it removed from
\* the mempool is in the chain of the node.
C35_MinedBlockKept ==
    [][\A n \in Nodes : \A t \in Calls :
          MineReturnsOk(n, t) =>
             /\ \E i \in 1..Len(chain'[n].blocks) :
                   MinedBy(n, chain'[n].blocks[i], call[n][t].txs)
             /\ \A m \in msgs' \ msgs :
                   (m.kind = "block" /\ m.from = n) =>
                       \E i \in 1..Len(chain'[n].blocks) :
                           /\ m.body[1] = BlockMarshalJSON(chain'[n].blocks[i])
                           /\ MinedBy(n, chain'[n].blocks[i], call[n][t].txs)
             /\ \A k \in 1..Len(call[n][t].txs) :
                   call[n][t].txs[k].id \in MinedIds(chain'[n])]_vars

\* SyncWithPeers of node n puts a chain in the place of the node's chain
Adopts(n) == SyncReturns(n) /\ chain'[n] # chain[n]

\* C36: the chain a node has after SyncWithPeers adopted a peer's chain
\* carries the difficulty and the mining reward the node was started with,
\* and every block of it after the genesis block has a hash with at least
\* as many leading zeros as the node's own difficulty.
C36_ParametersKept ==
    [][\A n \in Nodes :
          Adopts(n) =>
             /\ chain'[n].difficulty = NodeDifficulty(n)
             /\ chain'[n].mining_reward = NodeReward(n)
             /\ \A i \in 2..Len(chain'[n].blocks) :
                   MeetsTarget(chain'[n].blocks[i].hash, NodeDifficulty(n))]_vars

(***************************************************************************)
(* Claims about the mempool of a node that mines (SnapSpec)                *)
(***************************************************************************)
\* the transactions of a list
Listing(txs) == {txs[i] : i \in 1..Len(txs)}

\* invocation t of Mine on node n has its list from GetAll and has not
\* returned
Holding(n, t) == call[n][t].pc \in {"snap", "added"}

\* the transactions in the mempool of n that are not in the list of
\* invocation t: those accepted after GetAll
Late(n, t) == mempool[n] \ Listing(call[n][t].txs)

\* C37: the transactions accepted into the mempool after a Mine took its
\* list are all in the mempool when that Mine returns, with nil or with an
\* error; nothing takes a transaction out of the mempool but the return of
\* a Mine, which takes out its own list; and the list the next Mine takes
\* is the whole mempool, so it holds them.
C37_LateKept ==
    /\ [](\A n \in Nodes : \A t \in Calls :
            Holding(n, t) => Listing(call[n][t].txs) \subseteq mempool[n])
    /\ [][\A n \in Nodes : \A t \in Calls :
            (Holding(n, t) /\ call'[n][t].pc = "idle") =>
                Late(n, t) \subseteq mempool'[n]]_vars
    /\ [][\A n \in Nodes : \A tx \in mempool[n] \ mempool'[n] :
            \E t \in Calls :
                /\ call[n][t].pc = "added"
                /\ call'[n][t].pc = "idle"
                /\ tx \in Listing(call[n][t].txs)]_vars
    /\ [][\A n \in Nodes : \A t \in Calls :
            (call[n][t].pc = "locked" /\ call'[n][t].pc = "snap") =>
                Listing(call'[n][t].txs) = mempool[n]]_vars

\* C37 witness: a Mine has added the block of a list that held a transfer
\* and is about to remove the list, while the mempool holds a transfer
\* accepted since
C37_Witness ==
    \E t \in Calls :
        /\ call[1][t].pc = "added"
        /\ call[1][t].txs # <<>>
        /\ Late(1, t) # {}

(***************************************************************************)
(* Claims about the id of a transaction (IdSpec)                           *)
(***************************************************************************)
\* the transaction at place p of c
TxAt(c, p) == c.blocks[p[1]].transactions[p[2]]

\* t and u carry the same signed payload
SameSigned(t, u) ==
    DataToSign(t) = DataToSign(u) /\ t.signature = u.signature

\* C38: every transaction in the mempool of a node and every transaction
\* of a block AddBlock built carries the hash of its from, to, amount and
\* timestamp as its id; no two entries of a mempool carry the same signed
\* payload, and no two transfers of one block carry the same signature.
C38_IdIsHash ==
    \A n \in Nodes :
        /\ \A tx \in mempool[n] : tx.id = TxHash(tx)
        /\ \A p \in Positions(chain[n]) :
              TxAt(chain[n], p).id = TxHash(TxAt(chain[n], p))
        /\ \A t \in mempool[n], u \in mempool[n] :
              SameSigned(t, u) => t = u
        /\ \A p \in Positions(chain[n]), q \in Positions(chain[n]) :
              (/\ p[1] = q[1] /\ p[2] # q[2]
               /\ ~IsCoinbase(TxAt(chain[n], p))
               /\ ~IsCoinbase(TxAt(chain[n], q)))
                  => TxAt(chain[n], p).signature # TxAt(chain[n], q).signature

(***************************************************************************)
(* Claims about the readers of a node's chain (ReadSpec)                   *)
(***************************************************************************)
\* C27: what a node answers to GET /chain and GET /balance while
\* SyncWithPeers replaces its chain is the answer of the whole chain it
\* had or of the whole chain it gets, balances rebuilt: no reader finds
\* a chain that is partly built.
C27_SwapIsWhole ==
    [][\A n \in Nodes :
          (reader' # reader /\ reader'.n = n) =>
              \E c \in {chain[n]} \cup
                        (IF Replacing(n) THEN {Replacement(n)} ELSE {}) :
                  reader' = Answer(n, reader'.op, reader'.address, c)]_vars

(***************************************************************************)
(* Claims about Node.ReceiveTransaction (Spec)                             *)
(***************************************************************************)
\* C23: a transaction enters the mempool of a node only if the chain of
\* that node has a public key registered for its sender; a submission for
\* a sender never registered is refused.
C23_UnregisteredRefused ==
    [][\A n \in Nodes :
          \A tx \in mempool'[n] \ mempool[n] :
              chain[n].publicKeys[tx.from] # 0]_vars

\* node n sends a POST /transaction it was not already sending
Relays(n) ==
    \E m \in msgs' \ msgs : m.kind = "transaction" /\ m.from = n

\* the ids of the transactions in the mempool of node n
Pending(n) == {t.id : t \in mempool[n]}

\* C25: the relay of one submitted transaction stops, also between two
\* nodes that are peers of each other and with mining taking the
\* transaction out of a mempool in between: a node relays a transaction
\* only in a step that puts its id into the node's mempool, where it was
\* not, and in the end no POST /transaction is under way or sent again.
C25_GossipStops ==
    /\ [][\A n \in Nodes : Relays(n) =>
            \E m \in msgs' \ msgs :
                /\ m.kind = "transaction" /\ m.from = n
                /\ m.body[1].id \notin Pending(n)
                /\ m.body[1].id \in {t.id : t \in mempool'[n]}]_vars
    /\ <>[](\A m \in msgs : m.kind # "transaction")

\* C25 witness: node 1 mined the transfer while node 2's relay of it was
\* under way, took it into its mempool again and relayed it again; node 2
\* refused the copy and no request is left
C25_Witness ==
    /\ Transfer.id \in MinedIds(chain[1])
    /\ Transfer.id \in Pending(1)
    /\ Transfer.id \in Pending(2)
    /\ \A m \in msgs : m.kind # "transaction"

(***************************************************************************)
(* Claims about Node.AddPeer (PeerSpec)                                    *)
(***************************************************************************)
\* the addresses in a peer list
Listed(list) == {list[i] : i \in 1..Len(list)}

\* goroutine g returns from AddPeer in this step
AddPeerReturns(g) ==
    gor[g].op = "AddPeer" /\ gor[g].pc # "idle" /\ gor'[g].pc = "idle"

\* C30: a call of AddPeer that returns leaves the list as it was if the
\* address is the node's own or in the list, and else with the address
\* appended; and whatever calls overlap, the list never holds the node's
\* own address, never an address twice, and keeps every entry it has.
C30_AddPeerSafe ==
    /\ [](/\ Self \notin Listed(peers[Self])
          /\ Cardinality(Listed(peers[Self])) = Len(peers[Self]))
    /\ [][\A g \in Goroutines :
            AddPeerReturns(g) =>
                peers'[Self] =
                    IF gor[g].n = Self \/ gor[g].n \in Listed(peers[Self])
                    THEN peers[Self]
                    ELSE Append(peers[Self], gor[g].n)]_vars
    /\ [][\A i \in 1..Len(peers[Self]) :
            /\ i <= Len(peers'[Self])
            /\ peers'[Self][i] = peers[Self][i]]_vars

\* C30 witness: two calls with the same address overlap, one about to
\* append it and the other waiting for the mutex, the list holding the
\* address of an earlier call
C30_Witness ==
    \E g \in Goroutines, h \in Goroutines :
        /\ gor[g].pc = "write"
        /\ gor[h].pc = "call"
        /\ gor[h].op = "AddPeer"
        /\ gor[h].n = gor[g].n
        /\ Len(peers[Self]) = 1

(***************************************************************************)
(* Claims about the network (MeshSpec, OpenSpec)                           *)
(***************************************************************************)
\* C8: in the line of nodes, once a block has been mined and every
\* broadcast and sync it caused is over, all nodes hold chains of one
\* length.
C8_MeshSameLength ==
    (Settled /\ MeshFormed /\ now > FirstTick)
        => \A n \in Mesh, m \in Mesh : Length(chain[n]) = Length(chain[m])

\* the first block of c is a genesis block mined to c's difficulty
GenesisInOrder(c) ==
    /\ c.blocks[1].index = 0
    /\ c.blocks[1].previous_hash = ZeroHash
    /\ c.blocks[1].transactions = <<>>
    /\ MeetsTarget(c.blocks[1].hash, c.difficulty)

\* every later block of c carries its position, the hash of the block before
\* it, and a hash that is the hash of its fields and meets c's difficulty
LinksInOrder(c) ==
    \A i \in 2..Len(c.blocks) :
        /\ c.blocks[i].index = i - 1
        /\ c.blocks[i].previous_hash = c.blocks[i - 1].hash
        /\ c.blocks[i].hash = CalculateHash(c.blocks[i])
        /\ MeetsTarget(c.blocks[i].hash, c.difficulty)

\* C12: the chain of a node, whatever it mined and whatever chain it
\* adopted from a peer, has a genesis block in order (index 0, previous hash
\* "0", no transaction, mined to the difficulty) and every later block in
\* order (index, link, hash recomputed, proof of work).
C12_Structure ==
    \A n \in Nodes : GenesisInOrder(chain[n]) /\ LinksInOrder(chain[n])

\* C13: the public-key registry of a node's chain holds a key for every
\* address that is the sender of a non-coinbase transaction of the chain,
\* also after SyncWithPeers replaced the chain.
C13_SendersRegistered ==
    \A n \in Nodes : \A tx \in Transfers(chain[n]) :
        chain[n].publicKeys[tx.from] # 0

(***************************************************************************)
(* Claims about a sync with a failing peer (FaultSpec)                     *)
(***************************************************************************)
\* SyncWithPeers on node n makes one turn of its loop in this step
Turn(n) == sync[n].pc = "poll" /\ sync'[n].i = sync[n].i + 1

\* ... and the peer of that turn was down, or its body did not decode, or
\* its chain was not valid
Skipped(n) == Turn(n) /\ sync[n].i \in sync'[n].failed

\* the chain node n makes of the answer of peer p, a node
Candidate(p) ==
    RebuildState(ChainUnmarshalJSON(ChainMarshalJSON(chain[p])).chain)

\* C14: a turn of the loop for a peer that is down, sends a body that does
\* not decode or sends an invalid chain changes neither the node's chain
\* nor the candidate found so far; a valid chain longer than the candidate,
\* served in another turn of the same sync, is taken and adopted whether or
\* not other turns failed; a sync in which every turn failed, or none found
\* a candidate, leaves the chain as it was, and the chain is never replaced
\* by a chain of the failing peer.
C14_FailedPeerSkipped ==
    [][\A n \in Nodes :
          /\ Skipped(n) =>
                /\ chain'[n] = chain[n]
                /\ sync'[n].maxLength = sync[n].maxLength
                /\ sync'[n].longestChain = sync[n].longestChain
          /\ (Turn(n) /\ ~Skipped(n) /\ sync[n].peers[sync[n].i] # Stranger) =>
                LET c == Candidate(sync[n].peers[sync[n].i])
                IN  Length(c) > sync[n].maxLength =>
                        /\ sync'[n].longestChain = c
                        /\ sync'[n].maxLength = Length(c)
          /\ SyncReturns(n) =>
                /\ (sync[n].failed = 1..Len(sync[n].peers)) => chain'[n] = chain[n]
                /\ (sync[n].longestChain = NoChain) => chain'[n] = chain[n]
                /\ (sync[n].longestChain # NoChain) =>
                       chain'[n].blocks = sync[n].longestChain.blocks
                /\ \A r \in FaultyResponses :
                       r.answered =>
                          chain'[n].blocks # ChainUnmarshalJSON(r.body).chain.blocks
                /\ (/\ sync[n].quiet
                    /\ sync[n].failed # {}
                    /\ \E p \in sync[n].reached :
                          /\ IsValid(Candidate(p))
                          /\ Length(Candidate(p)) > sync[n].before)
                       => Length(chain'[n]) > sync[n].before]_vars

\* C14 witness: the first peer of the list failed, the second served a
\* longer valid chain, which the sync is about to put in place
C14_Witness ==
    /\ sync[1].pc = "replace"
    /\ Len(sync[1].peers) = 2
    /\ sync[1].failed = {1}
    /\ sync[1].longestChain # NoChain
    /\ Length(sync[1].longestChain) > Length(chain[1])

\* tx carries a signature of its sender: of the key whose address tx.from is
ProperlySigned(tx) ==
    \E k \in Keys : WalletAddress(k) = tx.from /\ Verify(tx, k)

\* C9: every non-coinbase transaction in the chain of a node, adopted
\* chains included, is signed by the key of its sender.
C9_ChainOnlySigned ==
    \A n \in Nodes : \A i \in 1..Len(chain[n].blocks) :
        \A k \in 1..Len(chain[n].blocks[i].transactions) :
            LET tx == chain[n].blocks[i].transactions[k]
            IN  IsCoinbase(tx) \/ ProperlySigned(tx)

(***************************************************************************)
(* Claims about Node.ReceiveBlock (BlockSpec)                              *)
(***************************************************************************)
\* node n handles a POST /block in this step
BlockHandled(n) ==
    \E m \in msgs \ msgs' : m.kind = "block" /\ m.to = n /\ Serving(n)

\* ... and its body decoded, so that ReceiveBlock was called
BlockReceived(n) ==
    \E m \in msgs \ msgs' :
        /\ m.kind = "block" /\ m.to = n /\ Serving(n)
        /\ BlockUnmarshalJSON(m.body[1]).ok

\* SyncWithPeers of node n starts, makes a turn of its loop or returns
SyncSteps(n) == sync'[n].pc # sync[n].pc \/ sync'[n].i # sync[n].i

\* no Mine of node n moves in this step
NoMineStep(n) == call'[n] = call[n]

====
